---- MODULE Spec2Model ----
(***************************************************************************)
(* Semantic firewall: a state-machine model of the request gateway, the    *)
(* ML filter, the action orchestrator, the detector factory, the benchmark *)
(* runner and the WebSocket connection manager.                            *)
(*                                                                         *)
(* Scores are kept in tenths: 8 stands for 0.8, 10 for 1.0.                *)
(* Each subsystem has its own specification; a specification leaves the    *)
(* variables of the other subsystems at their initial values.              *)
(***************************************************************************)
EXTENDS Integers, Sequences, FiniteSets, TLC

VARIABLES
    \* ---- ML filter service (fast_ml_filter/ml_filter_service.py)
    mlPc,          \* "idle" | "running" | "returned" | "raised"
    mlBehaviour,   \* what each detector does with the text of this call
    detState,      \* per detector: "idle" | "running" | "done" | "failed"
    mlResult,      \* the MLSignals returned, or NoSignals
    mlOrder,       \* the detectors in the order in which their detect() completed
    \* ---- action orchestrator (action_orchestrator/orchestrator_service.py)
    alerterWired,  \* OrchestratorService.alerter is not None
    storeWired,    \* OrchestratorService.idempotency_store is not None
    idemStore,     \* MemoryIdempotencyStore._store
    decisionLog,   \* decision log records emitted (warning/info + structured)
    alertLog,      \* alerts emitted
    debugLog,      \* "already processed" debug records
    execCalls,     \* the calls of execute so far, in order
    \* ---- request gateway (core/gateway/chat_service.py, core/orchestrator.py)
    gwPc,          \* per request: position in the pipeline
    gwReq,         \* per request: the data carried along the pipeline
    gwEvents,      \* events handed to metrics_service.add_request
    gwPut,         \* events put on the event queue by chat_service
    gwResponse,    \* per request: the HTTP response, or NoResponse
    \* ---- detector factory (fast_ml_filter/detector_factory.py)
    fCache,        \* DetectorFactory._shared_detector_cache: key -> instance, 0 = absent
    fThread,       \* per calling thread: position in create_*_detector
    fBuilt,        \* per key: the instances constructed so far
    fHanded,       \* per key: the instances returned to callers so far
    fNextId,       \* the next instance identity
    fSinceClear,   \* per cache key: the instances handed out since the last clear_cache
    fLastClear,    \* the last clear_cache: the count it returned, the entries it removed
    \* ---- benchmark runner (benchmark/benchmark_runner.py)
    bPc,           \* position of start_benchmark / the background task
    bTotal,        \* len(samples)
    bBatchStart,   \* batch_start of the loop
    bSample,       \* per sample of the current batch: "queued" | "running" | outcome
    bSem,          \* value of the asyncio.Semaphore
    bResults,      \* the results list: one result_type per processed sample
    bDbRows,       \* benchmark_results rows: <<sample_index, result_type>>
    bDbProcessed,  \* benchmark_runs.processed_samples
    bDbStatus,     \* benchmark_runs.status
    bDbMetrics,    \* benchmark_metrics row of the run, or NoMetrics
    bActive,       \* active_runs[run_id]: status and processed_samples
    bCancelFlag,   \* cancel_flags[run_id]: "absent" | "false" | "true"
    bCancelAccepted,  \* cancel_benchmark has returned True for the run
    bLastCancel,   \* return value of the last cancel_benchmark call
    bAfterCancel,  \* samples whose processing finished after the flag was set
    bStartedAfterCancel, \* batches started while the flag was set
    bFailed,       \* samples whose process_chat_request raised an unexpected exception
    \* ---- WebSocket fan-out (core/realtime/connection_manager.py, events_queue.py)
    wsConns,       \* ConnectionManager.active_connections
    wsQueue,       \* the event queue
    wsNextEvent,   \* the next event to be produced
    wsBcast,       \* the broadcast in progress: event, iterator index, failed sends
    wsSent,        \* <<event, connection>> pairs for which send_json was called
    wsStayed,      \* connections in the list since the current broadcast began
    wsDone,        \* broadcasts completed: event and the connections that stayed
    \* ---- metrics store (metrics_manager.py)
    mRequests,     \* MetricsManager._requests, a deque(maxlen=max_requests)
    mSessions,     \* MetricsManager._sessions: total_requests per session
    mAdded,        \* number of add_request calls so far (events carry 1, 2, ...)
    mRecent,       \* the last get_recent call: its limit and the ids returned
    \* ---- WebSocket endpoint and heartbeat (connection_manager.py heartbeat_sender)
    hbPc,          \* per connection: its heartbeat task, "none" | "sleep" | "send"
    hbSilence,     \* per connection: heartbeat intervals since a message was received
    \* ---- policy engine (policy_engine/policy_service.py, core/analyzer.py)
    pPolicies,     \* PolicyService._policies: the rule table and default action, or NoPolicies
    pSignals,      \* the MLSignals of the last analyze_content call
    pLength,       \* features["length"] of the last call
    pDecision,     \* the PolicyDecision of the last call, or NoDecision
    pRaised,       \* the ContentBlockedException of the last call: raised, reason
    pLoads,        \* the calls of loader.load() made by this PolicyService
    pEvaluations,  \* the calls of PolicyService.evaluate so far
    \* ---- OPA policy evaluator (policy_engine/adapters/opa_evaluator.py)
    oLoaded,       \* OPAEvaluator._current_policy_hash once _policy_loaded, or "none"
    oCall,         \* the last evaluate call: its policy and what the OPA server did
    oResult,       \* what the last evaluate call returned, or that it raised
    oPutSent,      \* the policy text the last evaluate call sent in a PUT, or "none"
    \* ---- benchmark sample processing (benchmark/benchmark_runner.py _process_sample)
    sRecord,       \* per sample: the record _process_sample returned, or NoRecord
    \* ---- benchmark comparison (core/benchmarks/service.py compare_benchmarks)
    cDb,           \* the benchmark_runs / benchmark_metrics rows of the runs a request can name
    cReq,          \* the request: baseline_run_id and candidate_run_ids
    cResult,       \* what compare_benchmarks returned or raised, or NoComparison
    \* ---- metric delta (core/benchmarks/service.py _compute_delta)
    dArgs,         \* baseline_value, candidate_value and positive_when_increases of one call
    dDelta,        \* the dictionary the call returned
    \* ---- per-sample comparison (core/benchmarks/service.py compare_benchmarks, step 4)
    kRows,         \* the benchmark_results rows of the baseline and of one candidate, by sample index
    kChanges,      \* the sample_changes entry built for the candidate
    \* ---- event queue (core/realtime/events_queue.py) and its import by chat_service
    qGlobal,       \* events_queue.event_queue, the module global: "None" | "Queue"
    qImported,     \* the name event_queue of chat_service, bound by its from-import
    \* ---- prompt-injection detector adapters (fast_ml_filter/adapters), one call of detect
    dtCall,        \* the detector called and what its model, embedding and inference do
    dtResult,      \* what the call of detect(text, context) gave
    \* ---- latency bookkeeping of MLFilterService.analyze (time.time() readings)
    lClock,        \* the value time.time() returns now, in ticks
    lRun,          \* analyze: pc, start_time and the latency_ms of the MLSignals
    lDet           \* per detector coroutine: pc, detector_start and its latency

mlVars   == <<mlPc, mlBehaviour, detState, mlResult, mlOrder>>
execVars == <<alerterWired, storeWired, idemStore, decisionLog, alertLog,
              debugLog, execCalls>>
gwVars   == <<gwPc, gwReq, gwEvents, gwPut, gwResponse>>
fVars    == <<fCache, fThread, fBuilt, fHanded, fNextId, fSinceClear,
              fLastClear>>
bVars    == <<bPc, bTotal, bBatchStart, bSample, bSem, bResults, bDbRows,
              bDbProcessed, bDbStatus, bDbMetrics, bActive, bCancelFlag,
              bCancelAccepted, bLastCancel, bAfterCancel, bStartedAfterCancel,
              bFailed>>
wsVars   == <<wsConns, wsQueue, wsNextEvent, wsBcast, wsSent, wsStayed, wsDone>>
mVars    == <<mRequests, mSessions, mAdded, mRecent>>
hbVars   == <<hbPc, hbSilence>>
pVars == <<pPolicies, pSignals, pLength, pDecision, pRaised, pLoads,
          pEvaluations>>
oVars == <<oLoaded, oCall, oResult, oPutSent>>
sVars == <<sRecord>>
cVars == <<cDb, cReq, cResult>>
dVars == <<dArgs, dDelta>>
kVars == <<kRows, kChanges>>
qVars == <<qGlobal, qImported>>
dtVars == <<dtCall, dtResult>>
lVars == <<lClock, lRun, lDet>>

\* what the actions of one subsystem leave alone
otherThanML   == <<execVars, gwVars, fVars, bVars, wsVars, mVars, hbVars, pVars, oVars, sVars, cVars, dVars, kVars, qVars, dtVars, lVars>>
otherThanExec == <<mlVars, gwVars, fVars, bVars, wsVars, mVars, hbVars, pVars, oVars, sVars, cVars, dVars, kVars, qVars, dtVars, lVars>>
otherThanGw   == <<mlVars, fVars, bVars, wsVars, mVars, hbVars, pVars, oVars, sVars, cVars, dVars, kVars, qVars, dtVars, lVars>>
otherThanF    == <<mlVars, execVars, gwVars, bVars, wsVars, mVars, hbVars, pVars, oVars, sVars, cVars, dVars, kVars, qVars, dtVars, lVars>>
otherThanB    == <<mlVars, execVars, gwVars, fVars, wsVars, mVars, hbVars, pVars, oVars, sVars, cVars, dVars, kVars, qVars, dtVars, lVars>>
otherThanWs   == <<mlVars, execVars, gwVars, fVars, bVars, mVars, hbVars, pVars, oVars, sVars, cVars, dVars, kVars, qVars, dtVars, lVars>>
otherThanM    == <<mlVars, execVars, gwVars, fVars, bVars, wsVars, hbVars, pVars, oVars, sVars, cVars, dVars, kVars, qVars, dtVars, lVars>>
otherThanHb   == <<mlVars, execVars, gwVars, fVars, bVars, mVars, wsQueue,
                   wsNextEvent, wsBcast, wsSent, wsStayed, wsDone, pVars, oVars, sVars, cVars, dVars, kVars, qVars, dtVars, lVars>>
otherThanP == <<mlVars, execVars, gwVars, fVars, bVars, wsVars, mVars, hbVars, oVars, sVars, cVars, dVars, kVars, qVars, dtVars, lVars>>
otherThanO == <<mlVars, execVars, gwVars, fVars, bVars, wsVars, mVars, hbVars, pVars, sVars, cVars, dVars, kVars, qVars, dtVars, lVars>>
otherThanS == <<mlVars, fVars, bVars, wsVars, mVars, hbVars, pVars, oVars, cVars, dVars, kVars, qVars, dtVars, lVars>>
otherThanC == <<mlVars, execVars, gwVars, fVars, bVars, wsVars, mVars, hbVars, pVars, oVars, sVars, dVars, kVars, qVars, dtVars, lVars>>
otherThanD == <<mlVars, execVars, gwVars, fVars, bVars, wsVars, mVars, hbVars, pVars, oVars, sVars, cVars, kVars, qVars, dtVars, lVars>>
otherThanK == <<mlVars, execVars, gwVars, fVars, bVars, wsVars, mVars, hbVars, pVars, oVars, sVars, cVars, dVars, qVars, dtVars, lVars>>
otherThanQ == <<mlVars, execVars, gwVars, fVars, bVars, wsVars, mVars, hbVars, pVars, oVars, sVars, cVars, dVars, kVars, dtVars, lVars>>
otherThanDt == <<mlVars, execVars, gwVars, fVars, bVars, wsVars, mVars, hbVars, pVars, oVars, sVars, cVars, dVars, kVars, qVars, lVars>>
otherThanL == <<mlVars, execVars, gwVars, fVars, bVars, wsVars, mVars, hbVars, pVars, oVars, sVars, cVars, dVars, kVars, qVars, dtVars>>

----------------------------------------------------------------------------
(* Small helpers *)

Min2(a, b) == IF a <= b THEN a ELSE b

Range(s) == {s[i] : i \in DOMAIN s}

----------------------------------------------------------------------------
(* ML filter service *)

Detectors == {"pii", "toxicity", "prompt_injection", "heuristic"}

\* sample scores in tenths: below, at and above the policy thresholds
SampleScores == {0, 7, 8, 9}

\* what one detector's detect() does: returns a score (heuristic: a blocked
\* flag) or throws
ScoreOutcomes == [ok : BOOLEAN, score : SampleScores, blocked : {FALSE}]
HeuristicOutcomes == [ok : BOOLEAN, score : {0}, blocked : BOOLEAN]

OutcomesOf(d) == IF d = "heuristic" THEN HeuristicOutcomes ELSE ScoreOutcomes

\* a thrown detector carries no value
Normal(o) == IF o.ok THEN o ELSE [ok |-> FALSE, score |-> 0, blocked |-> FALSE]

DetectorBehaviours ==
    {[d \in Detectors |->
         IF d = "pii" THEN p
         ELSE IF d = "toxicity" THEN t
         ELSE IF d = "prompt_injection" THEN i
         ELSE h] :
        p \in {o \in OutcomesOf("pii") : o = Normal(o)},
        t \in {o \in OutcomesOf("toxicity") : o = Normal(o)},
        i \in {o \in OutcomesOf("prompt_injection") : o = Normal(o)},
        h \in {o \in OutcomesOf("heuristic") : o = Normal(o)}}

NoSignals == [present |-> FALSE, pii_score |-> 0, toxicity_score |-> 0,
              prompt_injection_score |-> 0, heuristic_blocked |-> FALSE,
              heuristic_score |-> 0]

\* MLSignals(...) as built at the end of analyze
MLSignals(b) ==
    [present |-> TRUE,
     pii_score |-> b["pii"].score,
     toxicity_score |-> b["toxicity"].score,
     prompt_injection_score |-> b["prompt_injection"].score,
     heuristic_blocked |-> b["heuristic"].blocked,
     heuristic_score |-> IF b["heuristic"].blocked THEN 10 ELSE 0]

\* the awaitables handed to asyncio.gather, in argument order
GatherArgs == <<"pii", "toxicity", "prompt_injection", "heuristic">>

\* a gather that lists the results in the order of completion
GatherResultsMut(returned, order) ==
    [i \in 1..Len(order) |-> returned[order[i]]]

\* results = await asyncio.gather(...): the list holds the value each
\* awaitable returned, at the position of the awaitable among the arguments
GatherResults(returned, order) ==
    [i \in 1..Len(GatherArgs) |-> returned[GatherArgs[i]]]

\* (pii_score, pii_latency), (toxicity_score, toxicity_latency),
\* (prompt_injection_score, ...), (heuristic_result, ...) = results
Unpack(results) ==
    [d \in Detectors |->
        results[CHOOSE i \in 1..Len(GatherArgs) : GatherArgs[i] = d]]

\* asyncio.gather(run_pii(), run_toxicity(), run_prompt_injection(),
\* run_heuristic()) without return_exceptions: the first exception of a task is
\* raised to the awaiting caller
GatherRaises(states) == \E d \in Detectors : states[d] = "failed"
\* a gather that returns with the first result
GatherReturnsMut(states) == \E d \in Detectors : states[d] = "done"

GatherReturns(states) == \A d \in Detectors : states[d] = "done"

MLInit ==
    /\ mlPc = "idle"
    /\ mlBehaviour \in DetectorBehaviours
    /\ detState = [d \in Detectors |-> "idle"]
    /\ mlResult = NoSignals
    /\ mlOrder = << >>

\* analyze(text, context): the four run_* coroutines are handed to gather
MLStart ==
    /\ mlPc = "idle"
    /\ mlPc' = "running"
    /\ detState' = [d \in Detectors |-> "running"]
    /\ mlOrder' = << >>
    /\ UNCHANGED <<mlBehaviour, mlResult, otherThanML>>

\* asyncio.to_thread(detector.detect, text) completes in its worker thread
DetFinish(d) ==
    /\ mlPc \in {"running", "raised"}
    /\ detState[d] = "running"
    /\ detState' = [detState EXCEPT ![d] =
                        IF mlBehaviour[d].ok THEN "done" ELSE "failed"]
    /\ mlOrder' = Append(mlOrder, d)
    /\ UNCHANGED <<mlPc, mlBehaviour, mlResult, otherThanML>>

\* the await on gather resumes: with the exception of a failed task, or with
\* all four results
MLJoin ==
    /\ mlPc = "running"
    /\ \/ /\ GatherRaises(detState)
          /\ mlPc' = "raised"
          /\ UNCHANGED mlResult
       \/ /\ ~GatherRaises(detState)
          /\ GatherReturns(detState)
          /\ mlPc' = "returned"
          /\ mlResult' = MLSignals(Unpack(GatherResults(mlBehaviour, mlOrder)))
    /\ UNCHANGED <<mlBehaviour, detState, mlOrder, otherThanML>>

\* the next call of analyze, on another text
MLReset ==
    /\ mlPc \in {"returned", "raised"}
    /\ \A d \in Detectors : detState[d] # "running"
    /\ mlPc' = "idle"
    /\ mlBehaviour' \in DetectorBehaviours
    /\ detState' = [d \in Detectors |-> "idle"]
    /\ mlResult' = NoSignals
    /\ mlOrder' = << >>
    /\ UNCHANGED otherThanML

MLIdle ==
    /\ mlPc = "idle"
    /\ mlBehaviour = [d \in Detectors |-> [ok |-> TRUE, score |-> 0, blocked |-> FALSE]]
    /\ detState = [d \in Detectors |-> "idle"]
    /\ mlResult = NoSignals
    /\ mlOrder = << >>

----------------------------------------------------------------------------
(* ML filter service: the latencies analyze measures with time.time() *)

\* the clock readings of one call of analyze: 0..MaxClock
MaxClock == 3

\* (time.time() - since) * 1000, in ticks
Elapsed(now, since) == now - since

LInit ==
    /\ lClock = 0
    /\ lRun = [pc |-> "idle", start_time |-> 0, latency_ms |-> 0]
    /\ lDet = [d \in Detectors |->
                  [pc |-> "idle", detector_start |-> 0, latency |-> 0]]

\* time passes
LTick ==
    /\ lClock < MaxClock
    /\ lClock' = lClock + 1
    /\ UNCHANGED <<lRun, lDet, otherThanL>>

\* analyze is entered: start_time = time.time(), and the four coroutines are
\* handed to gather
LStart ==
    /\ lRun.pc = "idle"
    /\ lRun' = [lRun EXCEPT !.pc = "gathering", !.start_time = lClock]
    /\ lDet' = [d \in Detectors |-> [lDet[d] EXCEPT !.pc = "scheduled"]]
    /\ UNCHANGED <<lClock, otherThanL>>

\* run_<detector> starts: detector_start = time.time(), then to_thread
LDetStart(d) ==
    /\ lDet[d].pc = "scheduled"
    /\ lDet' = [lDet EXCEPT ![d].pc = "running", ![d].detector_start = lClock]
    /\ UNCHANGED <<lClock, lRun, otherThanL>>

\* detect returned: latency = (time.time() - detector_start) * 1000
LDetEnd(d) ==
    /\ lDet[d].pc = "running"
    /\ lDet' = [lDet EXCEPT ![d].pc = "done",
                            ![d].latency = Elapsed(lClock, lDet[d].detector_start)]
    /\ UNCHANGED <<lClock, lRun, otherThanL>>

\* gather returned the four results: latency_ms = (time.time() - start_time)
\* * 1000 and the MLSignals is built
LJoin ==
    /\ lRun.pc = "gathering"
    /\ GatherReturns([d \in Detectors |-> lDet[d].pc])
    /\ lRun' = [lRun EXCEPT !.pc = "returned",
                            !.latency_ms = Elapsed(lClock, lRun.start_time)]
    /\ UNCHANGED <<lClock, lDet, otherThanL>>

----------------------------------------------------------------------------
(* Policy engine: PolicyService.evaluate over the loader's default rules *)

NoDecision == [present |-> FALSE, blocked |-> FALSE, reason |-> "None",
               confidence |-> 0, matched_rule |-> "None"]

\* YAMLPolicyLoader.load: the rules returned when no policies file is read
DefaultRules ==
    << [name |-> "heuristic_block", condition |-> "heuristic_blocked == True",
        action |-> "block", reason |-> "Heuristic detection blocked"],
       [name |-> "pii_threshold", condition |-> "pii_score > 0.8",
        action |-> "block", reason |-> "High PII score detected"],
       [name |-> "toxicity_threshold", condition |-> "toxicity_score > 0.7",
        action |-> "block", reason |-> "High toxicity score detected"],
       [name |-> "max_length", condition |-> "features.length > 4000",
        action |-> "block", reason |-> "Prompt too long"] >>

\* YAMLPolicyLoader.load: default_action of the same policies
DefaultAction == "allow"

\* SimplePolicyEvaluator._evaluate_condition on a rule's condition string.
\* The context is {**ml_signals, **features, **tenant_context}: PolicyService
\* passes pii_score, toxicity_score and the heuristic fields (no
\* prompt_injection_score), and the features are merged at top level, so the
\* key is "length". Each context key found as a whole word in the condition
\* is replaced by its value and the result is eval'ed; any exception gives
\* False. In "features.length > 4000" the word "length" is replaced,
\* "features.<n> > 4000" does not evaluate; "prompt_injection_score" is not a
\* key, so the name stays and eval raises NameError.
ConditionHolds(condition, signals, length) ==
    CASE condition = "heuristic_blocked == True" -> signals.heuristic_blocked
      [] condition = "pii_score > 0.8"           -> signals.pii_score > 8
      [] condition = "toxicity_score > 0.7"      -> signals.toxicity_score > 7
      [] condition = "length > 4000"             -> length > 4000
      [] condition = "features.length > 4000"    -> FALSE
      [] condition = "prompt_injection_score > 0.8" -> FALSE
      [] OTHER                                   -> FALSE

\* the rule the loop of evaluate returns from: it iterates in list order and
\* returns at the first rule whose condition holds
LastHit(hits) == CHOOSE j \in hits : \A k \in hits : j >= k
FirstHit(hits) == CHOOSE j \in hits : \A k \in hits : j <= k

\* the dictionary evaluate returns after the loop, when no rule matched
DefaultDecisionMut(default_action) ==
    [present |-> TRUE, blocked |-> default_action = "block", reason |-> "None",
     confidence |-> 9, matched_rule |-> "None"]
DefaultDecision(default_action) ==
    [present |-> TRUE, blocked |-> default_action = "block", reason |-> "None",
     confidence |-> 5, matched_rule |-> "None"]

\* SimplePolicyEvaluator.evaluate over a rule table: the first rule whose
\* condition holds decides, with confidence 0.9; else the default action,
\* confidence 0.5, reason None and no matched rule
EvaluateRules(rules, default_action, signals, length) ==
    LET hits == {i \in DOMAIN rules :
                    ConditionHolds(rules[i].condition, signals, length)}
    IN  IF hits # {}
        THEN LET i == FirstHit(hits)
             IN  [present |-> TRUE,
                  blocked |-> rules[i].action = "block",
                  reason |-> rules[i].reason,
                  confidence |-> 9,
                  matched_rule |-> rules[i].name]
        ELSE DefaultDecision(default_action)

\* PolicyService.evaluate with the policies of the wired loader
Evaluate(signals, length) ==
    EvaluateRules(DefaultRules, DefaultAction, signals, length)

\* policies a deployment can hand to the evaluator: the loader returns the
\* content of policies.yaml when the file exists, and the default rules
\* otherwise
SamplePolicies ==
    { [rules |-> DefaultRules, default_action |-> DefaultAction],
      [rules |-> << [name |-> "allowlist",
                     condition |-> "heuristic_blocked == True",
                     action |-> "allow", reason |-> "Trusted pattern"],
                    [name |-> "pii_threshold", condition |-> "pii_score > 0.8",
                     action |-> "block",
                     reason |-> "High PII score detected"] >>,
       default_action |-> "block"],
      [rules |-> << [name |-> "prompt_injection",
                     condition |-> "prompt_injection_score > 0.8",
                     action |-> "block",
                     reason |-> "Prompt injection detected"],
                    [name |-> "length_limit", condition |-> "length > 4000",
                     action |-> "block", reason |-> "Prompt too long"],
                    [name |-> "toxicity_threshold",
                     condition |-> "toxicity_score > 0.7",
                     action |-> "block",
                     reason |-> "High toxicity score detected"] >>,
       default_action |-> "allow"],
      [rules |-> << >>, default_action |-> "block"] }

NoPolicies == [rules |-> << >>, default_action |-> "unloaded"]

\* the MLSignals the ML filter can hand to analyze_content
SampleSignals ==
    [present : {TRUE}, pii_score : SampleScores, toxicity_score : SampleScores,
     prompt_injection_score : SampleScores, heuristic_blocked : BOOLEAN,
     heuristic_score : {0}]

\* lengths at and just above the limit of the max_length rule
BoundaryLengths == {4000, 4001}

\* the evaluations and loads of one PolicyService followed by the model
MaxEvaluations == 3
MaxLoads == 2

\* a _get_policies that does not look at what it holds
PoliciesMissingMut(policies) == TRUE

\* "if self._policies is None"
PoliciesMissing(policies) == policies = NoPolicies

\* PolicyService._get_policies: what self._policies can be when it returns;
\* self.loader.load() is called when nothing is held, and what is held is
\* kept otherwise. The method is synchronous and is called from coroutines
\* of one event loop, so the test and the assignment are one step.
GetPolicies(loaded) ==
    IF PoliciesMissing(loaded) THEN SamplePolicies ELSE {loaded}

\* PolicyService.evaluate: the evaluator's answer wrapped in a PolicyDecision
PolicyEvaluate(policies, signals, length) ==
    EvaluateRules(policies.rules, policies.default_action, signals, length)

NoRaise == [raised |-> FALSE, reason |-> "None"]

\* analyze_content: a blocked decision is raised as ContentBlockedException
\* with reason = decision.reason
ContentBlocked(decision) ==
    IF decision.blocked
    THEN [raised |-> TRUE, reason |-> decision.reason]
    ELSE NoRaise

PInit ==
    /\ pPolicies = NoPolicies
    /\ pSignals = NoSignals
    /\ pLength = 0
    /\ pDecision = NoDecision
    /\ pRaised = NoRaise
    /\ pLoads = 0
    /\ pEvaluations = 0

\* one call of FirewallAnalyzer.analyze_content: ML signals and features in,
\* policy decision out, raised when blocked
PAnalyzeContent ==
    /\ pEvaluations < MaxEvaluations
    /\ pEvaluations' = pEvaluations + 1
    /\ pLoads' = pLoads + (IF PoliciesMissing(pPolicies) THEN 1 ELSE 0)
    /\ pLoads' <= MaxLoads
    /\ \E policies \in GetPolicies(pPolicies), signals \in SampleSignals,
          length \in BoundaryLengths :
          LET decision == PolicyEvaluate(policies, signals, length)
          IN  /\ pPolicies' = policies
              /\ pSignals' = signals
              /\ pLength' = length
              /\ pDecision' = decision
              /\ pRaised' = ContentBlocked(decision)
    /\ UNCHANGED otherThanP

----------------------------------------------------------------------------
(* Policy engine: OPAEvaluator, the evaluator that asks an OPA server *)

\* policies.get("rego_policy"): absent, or one of two policy texts
RegoPolicies == {"none", "rego_a", "rego_b"}

\* what the PUT of _load_policy meets: 200/201, another status, or an
\* httpx.RequestError
PutOutcomes == {"ok", "status_error", "transport_error"}

\* what the POST of _evaluate_policy meets: 200 with a decision, 200 with an
\* empty result, 200 with a body that is not the expected JSON object, another
\* status, or an httpx.RequestError
PostOutcomes == {"decision", "empty", "malformed", "status_error",
                 "transport_error"}

\* the decisions the loaded policy can give
OpaAnswers == [blocked : BOOLEAN, confidence : {9}]

OpaCalls == [rego : RegoPolicies, put : PutOutcomes, post : PostOutcomes,
             answer : OpaAnswers, loaded : RegoPolicies]

NoOpaCall == [rego |-> "none", put |-> "ok", post |-> "empty",
              answer |-> [blocked |-> FALSE, confidence |-> 9],
              loaded |-> "none"]

NoOpaResult == [present |-> FALSE, raised |-> FALSE, blocked |-> FALSE,
                confidence |-> 0, reason |-> "None"]

\* a _load_policy that tests only self._policy_loaded
LoadSkippedMut(loaded, rego) == loaded # "none"

\* _load_policy: skipped when the hash is the loaded one; else the PUT, which
\* records the hash on 200/201
LoadSkipped(loaded, rego) == loaded = rego

\* the content of the client.put of one call of evaluate: none when evaluate
\* returns for a missing policy and when _load_policy returns early
PutSent(loaded, rego) ==
    IF rego = "none" \/ LoadSkipped(loaded, rego) THEN "none" ELSE rego

LoadPolicy(loaded, rego, put) ==
    IF LoadSkipped(loaded, rego) \/ put # "ok" THEN loaded ELSE rego

\* the exception leaving _load_policy: RuntimeError for a status other than
\* 200/201, and RuntimeError raised from the httpx.RequestError
LoadRaises(loaded, rego, put) ==
    IF LoadSkipped(loaded, rego) \/ put = "ok" THEN "none" ELSE "RuntimeError"

\* the exception leaving _evaluate_policy: the httpx.RequestError re-raised,
\* RuntimeError for a status other than 200, and the error of reading a body
\* that is not {"result": {...}}
EvaluatePolicyRaises(post) ==
    CASE post = "transport_error" -> "RequestError"
      [] post = "status_error"    -> "RuntimeError"
      [] post = "malformed"       -> "ValueError"
      [] OTHER                    -> "none"

\* the exception leaving the try body of evaluate
TryBodyRaises(loaded, rego, put, post) ==
    IF LoadRaises(loaded, rego, put) # "none"
    THEN LoadRaises(loaded, rego, put)
    ELSE EvaluatePolicyRaises(post)

\* "except Exception" of evaluate
CaughtMut(exc) == exc \in {"RuntimeError"}
Caught(exc) == exc \in {"RuntimeError", "RequestError", "ValueError"}

\* the dictionary returned by the except branch of evaluate and by the
\* missing-policy branch: allow, confidence 0.0
FailOpen(why) ==
    [present |-> TRUE, raised |-> FALSE, blocked |-> FALSE, confidence |-> 0,
     reason |-> why]

\* an exception that leaves evaluate
Propagates(exc) ==
    [present |-> TRUE, raised |-> TRUE, blocked |-> FALSE, confidence |-> 0,
     reason |-> exc]

\* OPAEvaluator.evaluate
OpaEvaluate(loaded, rego, put, post, answer) ==
    LET exc == TryBodyRaises(loaded, rego, put, post)
    IN  IF rego = "none"
        THEN FailOpen("Policy evaluation error: No Rego policy found")
        ELSE IF exc # "none"
        THEN IF Caught(exc) THEN FailOpen("Policy evaluation error")
                            ELSE Propagates(exc)
        ELSE IF post = "empty"
        THEN [present |-> TRUE, raised |-> FALSE, blocked |-> FALSE,
              confidence |-> 5, reason |-> "None"]
        ELSE [present |-> TRUE, raised |-> FALSE, blocked |-> answer.blocked,
              confidence |-> answer.confidence, reason |-> "from policy"]

OInit ==
    /\ oLoaded = "none"
    /\ oCall = NoOpaCall
    /\ oResult = NoOpaResult
    /\ oPutSent = "none"

\* one call of evaluate
OEvaluate ==
    /\ \E rego \in RegoPolicies, put \in PutOutcomes, post \in PostOutcomes,
          answer \in OpaAnswers :
          /\ oCall' = [rego |-> rego, put |-> put, post |-> post,
                       answer |-> answer, loaded |-> oLoaded]
          /\ oLoaded' = IF rego = "none" THEN oLoaded
                        ELSE LoadPolicy(oLoaded, rego, put)
          /\ oResult' = OpaEvaluate(oLoaded, rego, put, post, answer)
          /\ oPutSent' = PutSent(oLoaded, rego)
    /\ UNCHANGED otherThanO

----------------------------------------------------------------------------
(* Action orchestrator: OrchestratorService.execute *)

MaxRequests == 2
Requests == 1..MaxRequests

\* request ids: the request's uuid, and "<uuid>_egress" for the egress analysis
ExecIds == Requests \X {"ingress", "egress"}

NoStored == [present |-> FALSE, decision |-> FALSE, reason |-> "None"]

\* a check on the stored decision instead of on the presence of an entry
AlreadyProcessedMut(rid) == storeWired /\ idemStore[rid].decision

\* "if existing:" on idempotency_store.get(request_id): a stored record is a
\* non-empty dict
AlreadyProcessed(rid) == storeWired /\ idemStore[rid].present

\* "if self.alerter and decision.confidence > 0.8" inside the blocked branch
ShouldAlert(decision) == alerterWired /\ decision.blocked /\ decision.confidence > 8

Severity(decision) == IF decision.confidence > 9 THEN "high" ELSE "medium"

\* MemoryIdempotencyStore.store: _store[request_id] = result.copy()
StoreResult(store, rid, decision) ==
    [store EXCEPT ![rid] = [present |-> TRUE, decision |-> decision.blocked,
                            reason |-> decision.reason]]

\* execute(decision, request_id, context)
Execute(decision, rid) ==
    /\ execCalls' = Append(execCalls, [request_id |-> rid, decision |-> decision])
    /\ IF AlreadyProcessed(rid)
       THEN /\ debugLog' = Append(debugLog, rid)
            /\ UNCHANGED <<idemStore, decisionLog, alertLog>>
       ELSE /\ decisionLog' = Append(decisionLog,
                 [request_id |-> rid, blocked |-> decision.blocked,
                  event |-> IF decision.blocked THEN "request_blocked"
                                                ELSE "request_allowed"])
            /\ alertLog' = IF ShouldAlert(decision)
                           THEN Append(alertLog, [request_id |-> rid,
                                                  severity |-> Severity(decision)])
                           ELSE alertLog
            /\ idemStore' = IF storeWired THEN StoreResult(idemStore, rid, decision)
                                          ELSE idemStore
            /\ UNCHANGED debugLog
    /\ UNCHANGED <<alerterWired, storeWired>>

\* decisions handed to execute by a direct caller
SampleDecisions ==
    { [present |-> TRUE, blocked |-> FALSE, reason |-> "None", confidence |-> 5,
       matched_rule |-> "None"],
      [present |-> TRUE, blocked |-> TRUE, reason |-> "High PII score detected",
       confidence |-> 8, matched_rule |-> "pii_threshold"],
      [present |-> TRUE, blocked |-> TRUE, reason |-> "High PII score detected",
       confidence |-> 9, matched_rule |-> "pii_threshold"],
      [present |-> TRUE, blocked |-> TRUE, reason |-> "Heuristic detection blocked",
       confidence |-> 10, matched_rule |-> "heuristic_block"] }

MaxExecCalls == 3

ExecInit ==
    /\ alerterWired \in BOOLEAN
    /\ storeWired \in BOOLEAN
    /\ idemStore = [rid \in ExecIds |-> NoStored]
    /\ decisionLog = << >>
    /\ alertLog = << >>
    /\ debugLog = << >>
    /\ execCalls = << >>

\* a caller runs execute to completion (it is synchronous)
ExecuteCall ==
    /\ Len(execCalls) < MaxExecCalls
    /\ \E d \in SampleDecisions, rid \in ExecIds : Execute(d, rid)
    /\ UNCHANGED otherThanExec

\* the container's wiring: alerter=None, idempotency_store=MemoryIdempotencyStore
ExecIdle ==
    /\ alerterWired = FALSE
    /\ storeWired = TRUE
    /\ idemStore = [rid \in ExecIds |-> NoStored]
    /\ decisionLog = << >>
    /\ alertLog = << >>
    /\ debugLog = << >>
    /\ execCalls = << >>

----------------------------------------------------------------------------
(* Event queue: core/realtime/events_queue.py, imported by chat_service *)

\* "if event_queue:" on an Optional[asyncio.Queue]
Truthy(queue) == queue # "None"

\* the modules are imported: events_queue sets its global to None, and
\* "from core.realtime import event_queue" in chat_service copies that value
\* into chat_service's own name
QInit ==
    /\ qGlobal = "None"
    /\ qImported = qGlobal

\* init_event_queue, awaited by the startup hook: rebinds the global of
\* events_queue; names that other modules imported keep their value
QInitEventQueue ==
    /\ qGlobal = "None"
    /\ qGlobal' = "Queue"
    /\ UNCHANGED <<qImported, otherThanQ>>

----------------------------------------------------------------------------
(* Request gateway: chat_service.process_chat_request over                  *)
(* FirewallOrchestrator.process_chat_request and FirewallAnalyzer           *)

\* detector behaviours of the texts sent through the gateway: a clean text,
\* one that trips each detector in turn, and one on which a detector throws
Clean == [ok |-> TRUE, score |-> 0, blocked |-> FALSE]

CleanBehaviour == [d \in Detectors |-> Clean]

GatewayBehaviours ==
    { CleanBehaviour,
      [CleanBehaviour EXCEPT !["pii"].score = 9],
      [CleanBehaviour EXCEPT !["toxicity"].score = 8],
      [CleanBehaviour EXCEPT !["prompt_injection"].score = 9],
      [CleanBehaviour EXCEPT !["heuristic"].blocked = TRUE],
      [CleanBehaviour EXCEPT !["pii"].ok = FALSE] }

\* features.length of the texts sent through the gateway
SampleLengths == {5, 4001}

\* the PreprocessedData of an analysis, by its features.length; None when absent
NoPreprocessed == [present |-> FALSE, length |-> 0]

NoResult == [present |-> FALSE, ml_signals |-> NoSignals, decision |-> NoDecision,
             preprocessed |-> NoPreprocessed]

NoResponse == [kind |-> "none", blocked |-> FALSE, reason |-> "None"]

FreshRequest ==
    [analyze_egress |-> FALSE, direction |-> "ingress", length |-> 0,
     ml_signals |-> NoSignals, decision |-> NoDecision,
     ingress_decision |-> NoDecision,
     analysis_result |-> NoResult, outcome |-> "pending",
     exc_signals |-> NoSignals, exc_reason |-> "None",
     exc_direction |-> "None", exc_preprocessed |-> NoPreprocessed,
     exc_matched_rule |-> "None", reply |-> "None", trace |-> << >>]

\* an egress analysis orchestrated under the id of the request itself
ExecuteRequestIdMut(r, direction) == <<r, "ingress">>

\* the request_id handed to _analyze_with_orchestration: request_id for the
\* ingress analysis and f"{request_id}_egress" for the egress analysis
ExecuteRequestId(r, direction) == <<r, direction>>

\* an analyzer that raises only for decisions of the highest confidence
AnalyzerRaisesMut(decision) == decision.blocked /\ decision.confidence > 9

\* analyze_content: "if decision.blocked: ... raise exc"
AnalyzerRaises(decision) == decision.blocked

\* _analyze_with_orchestration, except ContentBlockedException: the decision
\* rebuilt from the exception
BlockedDecision(decision) ==
    [present |-> TRUE, blocked |-> TRUE, reason |-> decision.reason,
     confidence |-> decision.confidence, matched_rule |-> decision.matched_rule]

\* a builder that fills the action without looking at the blocked flag
StandardizedEventMut(r, blocked, matched_rule) ==
    [id |-> r,
     action |-> "allow",
     policy_decision |-> IF blocked THEN "block" ELSE "allow",
     matched_rule |-> matched_rule]

\* create_standardized_event: "action" and policy "decision" come from the
\* blocked argument, the matched rule from the decision object
StandardizedEvent(r, blocked, matched_rule) ==
    [id |-> r,
     action |-> IF blocked THEN "block" ELSE "allow",
     policy_decision |-> IF blocked THEN "block" ELSE "allow",
     matched_rule |-> matched_rule]

GwInit ==
    /\ gwPc = [r \in Requests |-> "idle"]
    /\ gwReq = [r \in Requests |-> FreshRequest]
    /\ gwEvents = << >>
    /\ gwPut = << >>
    /\ gwResponse = [r \in Requests |-> NoResponse]

\* chat_service.process_chat_request up to the call of the orchestrator, with
\* analyze_egress=False, and the orchestrator's call of analyze_content.  The
\* orchestrator awaits analyze_content(content=, direction=, store=, context=),
\* while the analyzer's analyze_content is a plain function without a context
\* parameter: with that analyzer the call raises TypeError, which leaves
\* through "except Exception"; with an analyzer that matches the call the
\* pipeline of analyze_content runs.  Both are kept.
GwReceive(r) ==
    /\ gwPc[r] = "idle"
    /\ \/ /\ gwPc' = [gwPc EXCEPT ![r] = "preprocess"]
          /\ gwReq' = [gwReq EXCEPT ![r] = FreshRequest]
       \/ /\ gwPc' = [gwPc EXCEPT ![r] = "respond"]
          /\ gwReq' = [gwReq EXCEPT ![r] = [FreshRequest EXCEPT !.outcome = "error"]]
    /\ UNCHANGED <<gwEvents, gwPut, gwResponse, execVars, otherThanGw>>

\* analyze_content step 1: preprocessor.preprocess(content)
GwPreprocess(r) ==
    /\ gwPc[r] = "preprocess"
    /\ \E len \in SampleLengths :
          gwReq' = [gwReq EXCEPT ![r].length = len,
                                 ![r].trace = Append(@, "preprocess")]
    /\ gwPc' = [gwPc EXCEPT ![r] = "ml"]
    /\ UNCHANGED <<gwEvents, gwPut, gwResponse, execVars, otherThanGw>>

\* analyze_content step 2: ml_filter.analyze(normalized_text); an exception of
\* a detector leaves through process_chat_request's "except Exception"
GwMLAnalyze(r) ==
    /\ gwPc[r] = "ml"
    /\ \E b \in GatewayBehaviours :
          LET failed == [d \in Detectors |-> IF b[d].ok THEN "done" ELSE "failed"]
          IN  IF GatherRaises(failed)
              THEN /\ gwReq' = [gwReq EXCEPT ![r].trace = Append(@, "ml"),
                                             ![r].outcome = "error"]
                   /\ gwPc' = [gwPc EXCEPT ![r] = "respond"]
              ELSE /\ gwReq' = [gwReq EXCEPT ![r].trace = Append(@, "ml"),
                                             ![r].ml_signals = MLSignals(b)]
                   /\ gwPc' = [gwPc EXCEPT ![r] = "policy"]
    /\ UNCHANGED <<gwEvents, gwPut, gwResponse, execVars, otherThanGw>>

\* analyze_content step 3: policy_engine.evaluate, then the result or the
\* ContentBlockedException(reason, direction, details) with exc.ml_signals
\* attached; exc.preprocessed keeps the None of the constructor
GwPolicy(r) ==
    /\ gwPc[r] = "policy"
    /\ LET d == Evaluate(gwReq[r].ml_signals, gwReq[r].length)
       IN  gwReq' = [gwReq EXCEPT
                ![r].decision = d,
                ![r].ingress_decision = IF gwReq[r].direction = "ingress" THEN d ELSE @,
                ![r].trace = Append(@, "policy"),
                ![r].exc_signals = IF AnalyzerRaises(d) THEN gwReq[r].ml_signals
                                                        ELSE @,
                ![r].exc_reason = IF AnalyzerRaises(d) THEN d.reason ELSE @,
                ![r].exc_direction = IF AnalyzerRaises(d) THEN gwReq[r].direction
                                                          ELSE @,
                ![r].exc_matched_rule = IF AnalyzerRaises(d) THEN d.matched_rule
                                                             ELSE @,
                ![r].outcome = IF AnalyzerRaises(d) THEN "content_blocked" ELSE @,
                ![r].analysis_result =
                    IF ~AnalyzerRaises(d) /\ gwReq[r].direction = "ingress"
                    THEN [present |-> TRUE, ml_signals |-> gwReq[r].ml_signals,
                          decision |-> d,
                          preprocessed |-> [present |-> TRUE,
                                            length |-> gwReq[r].length]]
                    ELSE @]
    /\ gwPc' = [gwPc EXCEPT ![r] = "orchestrate"]
    /\ UNCHANGED <<gwEvents, gwPut, gwResponse, execVars, otherThanGw>>

\* _analyze_with_orchestration: execute the decision (the rebuilt blocked
\* decision on ContentBlockedException, which is then re-raised; on the way
\* out process_chat_request overwrites exc.ml_signals and exc.preprocessed
\* with those of analysis_result, the result of the ingress analysis, when
\* that result exists)
GwOrchestrate(r) ==
    /\ gwPc[r] = "orchestrate"
    /\ LET q == gwReq[r]
           raised == q.outcome = "content_blocked"
       IN  /\ Execute(IF raised THEN BlockedDecision(q.decision) ELSE q.decision,
                      ExecuteRequestId(r, q.direction))
           /\ gwReq' = [gwReq EXCEPT
                  ![r].trace = Append(@, "orchestrator"),
                  ![r].exc_signals = IF raised /\ q.analysis_result.present
                                     THEN q.analysis_result.ml_signals ELSE @,
                  ![r].exc_preprocessed =
                      IF raised /\ q.analysis_result.present
                      THEN q.analysis_result.preprocessed ELSE @,
                  ![r].outcome = IF ~raised /\ q.direction = "egress"
                                 THEN "allowed" ELSE @]
           /\ gwPc' = [gwPc EXCEPT ![r] =
                  IF raised \/ q.direction = "egress" THEN "respond" ELSE "backend"]
    /\ UNCHANGED <<gwEvents, gwPut, gwResponse, otherThanGw>>

\* _analyze_with_orchestration when execute raises (the logger's log, the
\* alerter's alert or the idempotency store raising, here at the first call
\* execute makes, so that nothing is recorded): neither call of execute is
\* inside a try of its own.  On the allow path the exception is not a
\* ContentBlockedException and leaves the method; on the block path it is
\* raised inside the except block and replaces the ContentBlockedException.
\* Either way it reaches "except Exception" of process_chat_request.
GwOrchestrateFails(r) ==
    /\ gwPc[r] = "orchestrate"
    /\ gwReq' = [gwReq EXCEPT ![r].trace = Append(@, "execute_failed"),
                              ![r].outcome = "error"]
    /\ gwPc' = [gwPc EXCEPT ![r] = "respond"]
    /\ UNCHANGED <<gwEvents, gwPut, gwResponse, execVars, otherThanGw>>

\* _proxy_with_error_handling: the backend answers or BackendError is raised;
\* then the optional egress analysis of a non-empty reply
GwBackend(r) ==
    /\ gwPc[r] = "backend"
    /\ \/ \E reply \in {"", "Echo"} :
            LET egress == gwReq[r].analyze_egress /\ reply # ""
            IN  /\ gwReq' = [gwReq EXCEPT
                       ![r].trace = Append(@, "backend"),
                       ![r].reply = reply,
                       ![r].direction = IF egress THEN "egress" ELSE @,
                       ![r].outcome = IF egress THEN @ ELSE "allowed"]
                /\ gwPc' = [gwPc EXCEPT ![r] =
                       IF egress THEN "preprocess" ELSE "respond"]
       \/ /\ gwReq' = [gwReq EXCEPT ![r].trace = Append(@, "backend"),
                                    ![r].outcome = "backend_error"]
          /\ gwPc' = [gwPc EXCEPT ![r] = "respond"]
    /\ UNCHANGED <<gwEvents, gwPut, gwResponse, execVars, otherThanGw>>

\* the exception process_chat_request of the orchestrator ended with
RaisedBy(outcome) ==
    CASE outcome = "content_blocked" -> "ContentBlockedException"
      [] outcome = "backend_error" -> "BackendError"
      [] OTHER -> "Exception"

\* FirewallOrchestrator.process_chat_request called with either value of
\* analyze_egress (its default is True), up to the call of analyze_content.
\* One call is followed from its start to its end: calls share only the
\* store of the action orchestrator, which is keyed by request id.
OrReceive(r) ==
    /\ \A other \in Requests : gwPc[other] = "idle"
    /\ \E egress \in BOOLEAN :
          \/ /\ gwPc' = [gwPc EXCEPT ![r] = "preprocess"]
             /\ gwReq' = [gwReq EXCEPT ![r] =
                             [FreshRequest EXCEPT !.analyze_egress = egress]]
          \/ /\ gwPc' = [gwPc EXCEPT ![r] = "respond"]
             /\ gwReq' = [gwReq EXCEPT ![r] =
                             [FreshRequest EXCEPT !.analyze_egress = egress,
                                                  !.outcome = "error"]]
    /\ UNCHANGED <<gwEvents, gwPut, gwResponse, execVars, otherThanGw>>

\* FirewallOrchestrator.process_chat_request ends: it returns
\* backend_response, with the reply of the backend, or one of its except
\* clauses re-raises
OrFinish(r) ==
    /\ gwPc[r] = "respond"
    /\ LET q == gwReq[r]
       IN  gwResponse' = [gwResponse EXCEPT ![r] =
               IF q.outcome = "allowed"
               THEN [kind |-> "returned", blocked |-> FALSE, reason |-> q.reply]
               ELSE [kind |-> RaisedBy(q.outcome),
                     blocked |-> q.outcome = "content_blocked",
                     reason |-> IF q.outcome = "content_blocked"
                                THEN q.exc_reason ELSE "None"]]
    /\ gwPc' = [gwPc EXCEPT ![r] = "done"]
    /\ UNCHANGED <<gwReq, gwEvents, gwPut, execVars, otherThanGw>>

\* core/exceptions.py: the classes an exception is an instance of
Bases(class) ==
    CASE class = "ContentBlockedException" ->
            {"ContentBlockedException", "FirewallException", "Exception"}
      [] class = "BackendError" ->
            {"BackendError", "FirewallException", "Exception"}
      [] class = "FirewallException" -> {"FirewallException", "Exception"}
      [] OTHER -> {"Exception"}

\* except clauses with the base class first
ExceptClausesMut ==
    <<"FirewallException", "ContentBlockedException", "BackendError", "Exception">>

\* the except clauses of chat_service.process_chat_request, in order
ExceptClauses ==
    <<"ContentBlockedException", "BackendError", "FirewallException", "Exception">>

\* the clause that handles an exception: the first one it is an instance of
HandlerOf(class) ==
    ExceptClauses[FirstHit({i \in DOMAIN ExceptClauses :
                                ExceptClauses[i] \in Bases(class)})]

\* chat_service.process_chat_request after the orchestrator returned or
\* raised: the event (metrics_service.add_request, event_queue.put) and the
\* ChatResponse, or the HTTPException
GwRespond(r) ==
    /\ gwPc[r] = "respond"
    /\ LET q == gwReq[r]
           allowed_event ==
               StandardizedEvent(r, FALSE, q.analysis_result.decision.matched_rule)
           blocked_event == StandardizedEvent(r, TRUE, q.exc_matched_rule)
       IN  CASE q.outcome = "allowed" ->
                  /\ gwEvents' =
                        IF q.analysis_result.present
                        THEN Append(gwEvents, allowed_event)
                        ELSE gwEvents
                  /\ gwPut' =
                        IF q.analysis_result.present /\ Truthy(qImported)
                        THEN Append(gwPut, allowed_event)
                        ELSE gwPut
                  /\ gwResponse' = [gwResponse EXCEPT ![r] =
                        [kind |-> "allowed", blocked |-> FALSE, reason |-> "None"]]
             [] HandlerOf(RaisedBy(q.outcome)) = "ContentBlockedException" ->
                  /\ gwEvents' =
                        IF q.exc_signals.present
                        THEN Append(gwEvents, blocked_event)
                        ELSE gwEvents
                  /\ gwPut' =
                        IF q.exc_signals.present /\ Truthy(qImported)
                        THEN Append(gwPut, blocked_event)
                        ELSE gwPut
                  /\ gwResponse' = [gwResponse EXCEPT ![r] =
                        [kind |-> "blocked", blocked |-> TRUE,
                         reason |-> q.exc_reason]]
             [] HandlerOf(RaisedBy(q.outcome)) = "BackendError" ->
                  /\ gwResponse' = [gwResponse EXCEPT ![r] =
                        [kind |-> "http_502", blocked |-> FALSE, reason |-> "None"]]
                  /\ UNCHANGED <<gwEvents, gwPut>>
             [] OTHER ->
                  /\ gwResponse' = [gwResponse EXCEPT ![r] =
                        [kind |-> "http_500", blocked |-> FALSE, reason |-> "None"]]
                  /\ UNCHANGED <<gwEvents, gwPut>>
    /\ gwPc' = [gwPc EXCEPT ![r] = "done"]
    /\ UNCHANGED <<gwReq, execVars, otherThanGw>>

\* a request arrives at the chat endpoint; the server takes requests once the
\* startup hook has run
QReceive(r) ==
    /\ Truthy(qGlobal)
    /\ GwReceive(r)

----------------------------------------------------------------------------
(* Detector factory: fast_ml_filter/detector_factory.py *)

MaxThreads == 2
Threads == 1..MaxThreads

\* cap on the instances constructed in one run of the model
MaxInstances == 3

\* the registries PROMPT_INJECTION_DETECTORS, PII_DETECTORS, TOXICITY_DETECTORS,
\* by cache key f"{kind}_{model_name}" (a sample of each)
RegisteredKeys == {"pi_custom_onnx", "pii_presidio", "toxicity_onnx"}

\* a model name that is in no registry
UnknownKeys == {"pii_bogus"}

CacheKeys == RegisteredKeys \cup UnknownKeys

\* "cache_key in self._detector_cache"
CacheHit(cache, key) == cache[key] # 0

IdleThread == [pc |-> "idle", key |-> "none", detector |-> 0, count |-> 0]

NoClear == [present |-> FALSE, returned |-> 0, removed |-> 0]

FInit ==
    /\ fCache = [k \in CacheKeys |-> 0]
    /\ fThread = [t \in Threads |-> IdleThread]
    /\ fBuilt = [k \in CacheKeys |-> {}]
    /\ fHanded = [k \in CacheKeys |-> {}]
    /\ fNextId = 1
    /\ fSinceClear = [k \in CacheKeys |-> {}]
    /\ fLastClear = NoClear

\* create_*_detector(model_name) up to the cache check: a hit returns the
\* cached instance, a miss goes on to validation and construction.  The class
\* attribute _lock is not acquired here or anywhere else.
FCheck(t, k) ==
    /\ fThread[t].pc = "idle"
    /\ \/ CacheHit(fCache, k)
       \/ (fNextId - 1) + Cardinality({u \in Threads : fThread[u].pc = "missed"})
              < MaxInstances
    /\ IF CacheHit(fCache, k)
          THEN /\ fThread' = [fThread EXCEPT ![t] =
                     [pc |-> "returned", key |-> k, detector |-> fCache[k],
                      count |-> 0]]
               /\ fHanded' = [fHanded EXCEPT ![k] = @ \cup {fCache[k]}]
               /\ fSinceClear' = [fSinceClear EXCEPT ![k] = @ \cup {fCache[k]}]
          ELSE /\ fThread' = [fThread EXCEPT ![t] =
                     [pc |-> "missed", key |-> k, detector |-> 0, count |-> 0]]
               /\ UNCHANGED <<fHanded, fSinceClear>>
    /\ UNCHANGED <<fCache, fBuilt, fNextId, fLastClear, otherThanF>>

\* after a miss: ValueError for a model name outside the registry, otherwise
\* detector_class(...) builds a new instance (the model is loaded here)
FConstruct(t) ==
    /\ fThread[t].pc = "missed"
    /\ IF fThread[t].key \notin RegisteredKeys
          THEN /\ fThread' = [fThread EXCEPT ![t].pc = "raised"]
               /\ UNCHANGED <<fBuilt, fNextId>>
          ELSE /\ fThread' = [fThread EXCEPT ![t].pc = "constructed",
                                             ![t].detector = fNextId]
               /\ fBuilt' = [fBuilt EXCEPT ![fThread[t].key] = @ \cup {fNextId}]
               /\ fNextId' = fNextId + 1
    /\ UNCHANGED <<fCache, fHanded, fSinceClear, fLastClear, otherThanF>>

\* self._detector_cache[cache_key] = detector; return detector
FStore(t) ==
    /\ fThread[t].pc = "constructed"
    /\ fCache' = [fCache EXCEPT ![fThread[t].key] = fThread[t].detector]
    /\ fHanded' = [fHanded EXCEPT ![fThread[t].key] = @ \cup {fThread[t].detector}]
    /\ fSinceClear' = [fSinceClear EXCEPT ![fThread[t].key] =
                           @ \cup {fThread[t].detector}]
    /\ fThread' = [fThread EXCEPT ![t].pc = "returned"]
    /\ UNCHANGED <<fBuilt, fNextId, fLastClear, otherThanF>>

\* the caller goes on and may call the factory again
FDone(t) ==
    /\ fThread[t].pc \in {"returned", "raised"}
    /\ fThread' = [fThread EXCEPT ![t] = IdleThread]
    /\ UNCHANGED <<fCache, fBuilt, fHanded, fNextId, fSinceClear, fLastClear,
                   otherThanF>>

\* len(self._detector_cache)
CacheSize(cache) == Cardinality({k \in CacheKeys : CacheHit(cache, k)})

\* clear_cache, first statement: count = len(self._detector_cache)
FClearCount(t) ==
    /\ fThread[t].pc = "idle"
    /\ fThread' = [fThread EXCEPT ![t] =
           [pc |-> "counted", key |-> "none", detector |-> 0,
            count |-> CacheSize(fCache)]]
    /\ UNCHANGED <<fCache, fBuilt, fHanded, fNextId, fSinceClear, fLastClear,
                   otherThanF>>

\* clear_cache, second statement: self._detector_cache.clear(); return count.
\* The instances are not touched: whoever holds one keeps it.
FClear(t) ==
    /\ fThread[t].pc = "counted"
    /\ fCache' = [k \in CacheKeys |-> 0]
    /\ fLastClear' = [present |-> TRUE, returned |-> fThread[t].count,
                      removed |-> CacheSize(fCache)]
    /\ fSinceClear' = [k \in CacheKeys |-> {}]
    /\ fThread' = [fThread EXCEPT ![t].pc = "returned"]
    /\ UNCHANGED <<fBuilt, fHanded, fNextId, otherThanF>>

----------------------------------------------------------------------------
(* Benchmark runner: benchmark/benchmark_runner.py, one run *)

\* len(samples) of the run is between 1 and MaxSamples
MaxSamples == 4

\* self.batch_size and self.max_concurrent_samples, scaled down; the batch is
\* larger than the semaphore, as with the defaults 50 and 10
BatchSize == 3
MaxConcurrentSamples == 2

SampleIdx == 0..(MaxSamples - 1)

Outcomes == {"allowed", "blocked", "error"}

\* DatasetSample.expected_label of the sample at an index
ExpectedLabel(i) == IF i % 2 = 0 THEN "jailbreak" ELSE "benign"

\* MetricsCalculator.calculate_result_type
CalculateResultType(expected_label, predicted_blocked) ==
    IF expected_label = "jailbreak" /\ predicted_blocked THEN "TRUE_POSITIVE"
    ELSE IF expected_label = "jailbreak" /\ ~predicted_blocked THEN "FALSE_NEGATIVE"
    ELSE IF expected_label # "jailbreak" /\ predicted_blocked THEN "FALSE_POSITIVE"
    ELSE "TRUE_NEGATIVE"

\* a _process_sample whose "except Exception" branch classifies the sample
\* as not blocked
ResultTypeOfMut(i, outcome) ==
    CalculateResultType(ExpectedLabel(i), outcome = "blocked")

\* _process_sample: the result_type of the record it returns; every exception
\* is caught there and gives an ERROR record
ResultTypeOf(i, outcome) ==
    IF outcome = "error" THEN "ERROR"
    ELSE CalculateResultType(ExpectedLabel(i), outcome = "blocked")

NoMetrics == [present |-> FALSE, true_positives |-> 0, false_positives |-> 0,
              true_negatives |-> 0, false_negatives |-> 0, total_samples |-> 0]

\* an INSERT whose transaction is never committed: the row stays as it was
SaveMetricsMut(row, metrics) == row

\* save_metrics: INSERT OR REPLACE of the run's benchmark_metrics row, then
\* commit
SaveMetrics(row, metrics) == metrics

\* sum(1 for r in results if r["result_type"] == type)
CountType(results, type) ==
    Cardinality({i \in DOMAIN results : results[i] = type})

\* MetricsCalculator.calculate_metrics: the counts it returns
CalculateMetrics(results) ==
    [present |-> TRUE,
     true_positives |-> CountType(results, "TRUE_POSITIVE"),
     false_positives |-> CountType(results, "FALSE_POSITIVE"),
     true_negatives |-> CountType(results, "TRUE_NEGATIVE"),
     false_negatives |-> CountType(results, "FALSE_NEGATIVE"),
     total_samples |-> CountType(results, "TRUE_POSITIVE")
                       + CountType(results, "FALSE_POSITIVE")
                       + CountType(results, "TRUE_NEGATIVE")
                       + CountType(results, "FALSE_NEGATIVE")]

\* a batch that stops one sample short of the next batch_start
BatchEndMut(batch_start, total) == Min2(batch_start + BatchSize - 1, total)

\* batch_end = min(batch_start + self.batch_size, total_samples)
BatchEnd(batch_start, total) == Min2(batch_start + BatchSize, total)

\* samples[batch_start:batch_end], by index
BatchSamples(batch_start, total) == batch_start..(BatchEnd(batch_start, total) - 1)

\* a test of the flag with its sense inverted
CancelRequestedInv(flag) == flag = "false"

\* a loop that does not look at the flag
CancelRequestedMut(flag) == FALSE

\* self.cancel_flags.get(run_id, False)
CancelRequested(flag) == flag = "true"

\* tasks that enter without waiting for the semaphore
SemaphoreFreeMut(value) == TRUE

\* "async with semaphore": the task enters when the value is positive
SemaphoreFree(value) == value > 0

NoActiveRun == [present |-> FALSE, status |-> "none", processed_samples |-> 0]

BInit ==
    /\ bPc = "none"
    /\ bTotal = 0
    /\ bBatchStart = 0
    /\ bSample = [i \in SampleIdx |-> "pending"]
    /\ bSem = 0
    /\ bResults = << >>
    /\ bDbRows = << >>
    /\ bDbProcessed = 0
    /\ bDbStatus = "none"
    /\ bDbMetrics = NoMetrics
    /\ bActive = NoActiveRun
    /\ bCancelFlag = "absent"
    /\ bCancelAccepted = FALSE
    /\ bLastCancel = "none"
    /\ bAfterCancel = 0
    /\ bStartedAfterCancel = 0
    /\ bFailed = {}

\* start_benchmark: the run row is created with status running, the run is
\* entered in active_runs and cancel_flags, the background task is created and
\* (first step of _execute_benchmark) makes its semaphore
BStart ==
    /\ bPc = "none"
    /\ \E n \in 1..MaxSamples : bTotal' = n
    /\ bDbStatus' = "running"
    /\ bDbProcessed' = 0
    /\ bActive' = [present |-> TRUE, status |-> "running", processed_samples |-> 0]
    /\ bCancelFlag' = "false"
    /\ bSem' = MaxConcurrentSamples
    /\ bBatchStart' = 0
    /\ bPc' = "loop"
    /\ UNCHANGED <<bSample, bResults, bDbRows, bDbMetrics, bCancelAccepted,
                   bLastCancel, bAfterCancel, bStartedAfterCancel, bFailed, otherThanB>>

\* cancel_benchmark(run_id), at any moment
BCancel ==
    /\ IF bActive.present /\ bActive.status = "running"
          THEN /\ bCancelFlag' = "true"
               /\ bCancelAccepted' = TRUE
               /\ bLastCancel' = "true"
          ELSE /\ bLastCancel' = "false"
               /\ UNCHANGED <<bCancelFlag, bCancelAccepted>>
    /\ UNCHANGED <<bPc, bTotal, bBatchStart, bSample, bSem, bResults, bDbRows,
                   bDbProcessed, bDbStatus, bDbMetrics, bActive, bAfterCancel,
                   bStartedAfterCancel, bFailed, otherThanB>>

\* loop head with a batch left and no cancellation seen: the tasks of the
\* batch are created and handed to gather
BBatchStart ==
    /\ bPc = "loop"
    /\ bBatchStart < bTotal
    /\ ~CancelRequested(bCancelFlag)
    /\ bSample' = [i \in SampleIdx |->
                      IF i \in BatchSamples(bBatchStart, bTotal)
                         THEN "queued" ELSE bSample[i]]
    /\ bStartedAfterCancel' = bStartedAfterCancel
                                + (IF bCancelFlag = "true" THEN 1 ELSE 0)
    /\ bPc' = "gather"
    /\ UNCHANGED <<bTotal, bBatchStart, bSem, bResults, bDbRows, bDbProcessed,
                   bDbStatus, bDbMetrics, bActive, bCancelFlag, bCancelAccepted,
                   bLastCancel, bAfterCancel, bFailed, otherThanB>>

\* loop head with a batch left and the flag set: update_run_status(cancelled)
\* is awaited
BCancelSeen ==
    /\ bPc = "loop"
    /\ bBatchStart < bTotal
    /\ CancelRequested(bCancelFlag)
    /\ bPc' = "mark_cancelled"
    /\ UNCHANGED <<bTotal, bBatchStart, bSample, bSem, bResults, bDbRows,
                   bDbProcessed, bDbStatus, bDbMetrics, bActive, bCancelFlag,
                   bCancelAccepted, bLastCancel, bAfterCancel,
                   bStartedAfterCancel, bFailed, otherThanB>>

\* update_run_status(run_id, "cancelled") returns; break; the block after the
\* loop reads the flag again: it is skipped when the flag is set, and finally
\* removes the flag
BMarkCancelled ==
    /\ bPc = "mark_cancelled"
    /\ bDbStatus' = "cancelled"
    /\ IF ~CancelRequested(bCancelFlag)
          THEN /\ bPc' = "save_metrics"
               /\ UNCHANGED bCancelFlag
          ELSE /\ bPc' = "ended"
               /\ bCancelFlag' = "absent"
    /\ UNCHANGED <<bTotal, bBatchStart, bSample, bSem, bResults, bDbRows,
                   bDbProcessed, bDbMetrics, bActive, bCancelAccepted,
                   bLastCancel, bAfterCancel, bStartedAfterCancel, bFailed, otherThanB>>

\* _process_sample_with_semaphore enters "async with semaphore"
BSampleAcquire(i) ==
    /\ bPc = "gather"
    /\ bSample[i] = "queued"
    /\ SemaphoreFree(bSem)
    /\ bSem' = bSem - 1
    /\ bSample' = [bSample EXCEPT ![i] = "running"]
    /\ UNCHANGED <<bPc, bTotal, bBatchStart, bResults, bDbRows, bDbProcessed,
                   bDbStatus, bDbMetrics, bActive, bCancelFlag, bCancelAccepted,
                   bLastCancel, bAfterCancel, bStartedAfterCancel, bFailed, otherThanB>>

\* _process_sample returns its record and the semaphore is released
BSampleFinish(i) ==
    /\ bPc = "gather"
    /\ bSample[i] = "running"
    /\ \E o \in Outcomes :
          /\ bSample' = [bSample EXCEPT ![i] = o]
          /\ bFailed' = IF o = "error" THEN bFailed \cup {i} ELSE bFailed
    /\ bSem' = bSem + 1
    /\ bAfterCancel' = bAfterCancel + (IF bCancelFlag = "true" THEN 1 ELSE 0)
    /\ UNCHANGED <<bPc, bTotal, bBatchStart, bResults, bDbRows, bDbProcessed,
                   bDbStatus, bDbMetrics, bActive, bCancelFlag, bCancelAccepted,
                   bLastCancel, bStartedAfterCancel, otherThanB>>

\* the result types of the current batch, in sample order
BatchResults(batch_start, total, sample) ==
    [k \in 1..(BatchEnd(batch_start, total) - batch_start) |->
        ResultTypeOf(batch_start + k - 1, sample[batch_start + k - 1])]

\* the db_batch of the current batch
BatchRows(batch_start, total, sample) ==
    [k \in 1..(BatchEnd(batch_start, total) - batch_start) |->
        [sample_index |-> batch_start + k - 1,
         result_type |-> ResultTypeOf(batch_start + k - 1,
                                      sample[batch_start + k - 1])]]

\* a progress counter advanced by the configured batch size
BatchCountMut(db_batch) == BatchSize

\* batch_count = len(db_batch)
BatchCount(db_batch) == Len(db_batch)

\* update_processed_samples_batch: processed_samples = processed_samples + ?
UpdateProcessedSamplesBatch(processed_samples, count) == processed_samples + count

\* gather returns: results.extend(successful_results), then
\* save_results_batch(db_batch) is awaited
BGatherDone ==
    /\ bPc = "gather"
    /\ \A i \in BatchSamples(bBatchStart, bTotal) : bSample[i] \in Outcomes
    /\ bResults' = bResults \o BatchResults(bBatchStart, bTotal, bSample)
    /\ bPc' = "persist"
    /\ UNCHANGED <<bTotal, bBatchStart, bSample, bSem, bDbRows, bDbProcessed,
                   bDbStatus, bDbMetrics, bActive, bCancelFlag, bCancelAccepted,
                   bLastCancel, bAfterCancel, bStartedAfterCancel, bFailed, otherThanB>>

\* save_results_batch returns: the rows of the batch are committed in one
\* transaction; active_runs' counter is advanced;
\* update_processed_samples_batch is awaited
BPersist ==
    /\ bPc = "persist"
    /\ bDbRows' = bDbRows \o BatchRows(bBatchStart, bTotal, bSample)
    /\ bActive' = [bActive EXCEPT !.processed_samples =
                       @ + BatchCount(BatchRows(bBatchStart, bTotal, bSample))]
    /\ bSample' = [i \in SampleIdx |->
                      IF i \in BatchSamples(bBatchStart, bTotal)
                         THEN "collected" ELSE bSample[i]]
    /\ bPc' = "progress"
    /\ UNCHANGED <<bTotal, bBatchStart, bSem, bResults, bDbProcessed, bDbStatus,
                   bDbMetrics, bCancelFlag, bCancelAccepted, bLastCancel,
                   bAfterCancel, bStartedAfterCancel, bFailed, otherThanB>>

\* update_processed_samples_batch returns; the loop goes to its next
\* batch_start
BProgress ==
    /\ bPc = "progress"
    /\ bDbProcessed' = UpdateProcessedSamplesBatch(bDbProcessed,
                            BatchCount(BatchRows(bBatchStart, bTotal, bSample)))
    /\ bBatchStart' = bBatchStart + BatchSize
    /\ bPc' = "loop"
    /\ UNCHANGED <<bTotal, bSample, bSem, bResults, bDbRows, bDbStatus,
                   bDbMetrics, bActive, bCancelFlag, bCancelAccepted,
                   bLastCancel, bAfterCancel, bStartedAfterCancel, bFailed, otherThanB>>

\* the range is exhausted: "if not self.cancel_flags.get(run_id, False)" either
\* computes the metrics and awaits save_metrics, or skips to finally
BLoopExit ==
    /\ bPc = "loop"
    /\ bBatchStart >= bTotal
    /\ IF ~CancelRequested(bCancelFlag)
          THEN /\ bPc' = "save_metrics"
               /\ UNCHANGED bCancelFlag
          ELSE /\ bPc' = "ended"
               /\ bCancelFlag' = "absent"
    /\ UNCHANGED <<bTotal, bBatchStart, bSample, bSem, bResults, bDbRows,
                   bDbProcessed, bDbStatus, bDbMetrics, bActive,
                   bCancelAccepted, bLastCancel, bAfterCancel,
                   bStartedAfterCancel, bFailed, otherThanB>>

\* save_metrics returns; update_run_status(completed) is awaited
BSaveMetrics ==
    /\ bPc = "save_metrics"
    /\ bDbMetrics' = SaveMetrics(bDbMetrics, CalculateMetrics(bResults))
    /\ bPc' = "set_completed"
    /\ UNCHANGED <<bTotal, bBatchStart, bSample, bSem, bResults, bDbRows,
                   bDbProcessed, bDbStatus, bActive, bCancelFlag,
                   bCancelAccepted, bLastCancel, bAfterCancel,
                   bStartedAfterCancel, bFailed, otherThanB>>

\* update_run_status(run_id, "completed") returns; active_runs' status is set;
\* finally removes the flag
BSetCompleted ==
    /\ bPc = "set_completed"
    /\ bDbStatus' = "completed"
    /\ bActive' = [bActive EXCEPT !.status = "completed"]
    /\ bCancelFlag' = "absent"
    /\ bPc' = "ended"
    /\ UNCHANGED <<bTotal, bBatchStart, bSample, bSem, bResults, bDbRows,
                   bDbProcessed, bDbMetrics, bCancelAccepted, bLastCancel,
                   bAfterCancel, bStartedAfterCancel, bFailed, otherThanB>>

\* get_status: the "status" it reports for the run, None for an unknown run
GetStatus(active_run) ==
    IF active_run.present THEN active_run.status ELSE "None"

\* the database call the task awaits inside its try block raises (the file is
\* locked, the disk is full): the statement has no effect and control goes to
\* "except Exception", where update_run_status(run_id, "failed", str(e)) is
\* awaited
BDbRaises ==
    /\ bPc \in {"mark_cancelled", "persist", "progress", "save_metrics",
                "set_completed"}
    /\ bPc' = "except"
    /\ UNCHANGED <<bTotal, bBatchStart, bSample, bSem, bResults, bDbRows,
                   bDbProcessed, bDbStatus, bDbMetrics, bActive, bCancelFlag,
                   bCancelAccepted, bLastCancel, bAfterCancel,
                   bStartedAfterCancel, bFailed, otherThanB>>

\* update_run_status(run_id, "failed", str(e)) returns; active_runs' status is
\* set; finally removes the flag
BSetFailed ==
    /\ bPc = "except"
    /\ bDbStatus' = "failed"
    /\ bActive' = [bActive EXCEPT !.status = "failed"]
    /\ bCancelFlag' = "absent"
    /\ bPc' = "ended"
    /\ UNCHANGED <<bTotal, bBatchStart, bSample, bSem, bResults, bDbRows,
                   bDbProcessed, bDbMetrics, bCancelAccepted, bLastCancel,
                   bAfterCancel, bStartedAfterCancel, bFailed, otherThanB>>

\* update_run_status(run_id, "failed", str(e)) raises as well: the exception
\* leaves the handler, finally removes the flag and the task ends with it
BSetFailedRaises ==
    /\ bPc = "except"
    /\ bCancelFlag' = "absent"
    /\ bPc' = "ended"
    /\ UNCHANGED <<bTotal, bBatchStart, bSample, bSem, bResults, bDbRows,
                   bDbProcessed, bDbStatus, bDbMetrics, bActive,
                   bCancelAccepted, bLastCancel, bAfterCancel,
                   bStartedAfterCancel, bFailed, otherThanB>>

----------------------------------------------------------------------------
(* Benchmark runner: _process_sample over the firewall orchestrator.  The   *)
(* sample is sent through FirewallOrchestrator.process_chat_request, the    *)
(* method the chat endpoint uses: the actions GwReceive .. GwBackend.       *)

NoRecord == [present |-> FALSE, predicted_label |-> "none", result_type |-> "none"]

\* the db_record of _process_sample: from the returned dictionary, from the
\* ContentBlockedException, or from any other exception
SampleRecord(r, outcome) ==
    [present |-> TRUE,
     predicted_label |-> CASE outcome = "allowed" -> "allowed"
                           [] outcome = "content_blocked" -> "blocked"
                           [] OTHER -> "error",
     result_type |-> CASE outcome = "allowed" ->
                            CalculateResultType(ExpectedLabel(r), FALSE)
                       [] outcome = "content_blocked" ->
                            CalculateResultType(ExpectedLabel(r), TRUE)
                       [] OTHER -> "ERROR"]

SInit == sRecord = [r \in Requests |-> NoRecord]

\* _process_sample after process_chat_request returned or raised
SProcessSample(r) ==
    /\ gwPc[r] = "respond"
    /\ sRecord' = [sRecord EXCEPT ![r] = SampleRecord(r, gwReq[r].outcome)]
    /\ gwPc' = [gwPc EXCEPT ![r] = "done"]
    /\ UNCHANGED <<gwReq, gwEvents, gwPut, gwResponse, execVars, otherThanS>>

----------------------------------------------------------------------------
(* Benchmark comparison: BenchmarkService.compare_benchmarks *)

\* the run ids a request can name; a run without a row is an unknown id
CmpRuns == {"R0", "R1"}

\* the longest candidate_run_ids list tried
MaxCandidates == 2

NoRun == [exists |-> FALSE, status |-> "none", dataset_name |-> "none",
          dataset_split |-> "none", has_metrics |-> FALSE]

\* get_run / get_metrics of one run id: no row, or a row with its status and
\* dataset, with or without a benchmark_metrics row
RunInfos ==
    {NoRun} \cup
    [exists : {TRUE}, status : {"completed", "running"},
     dataset_name : {"jailbreaks", "toxic"}, dataset_split : {"train", "test"},
     has_metrics : BOOLEAN]

\* a candidate_run_ids entry: a run id or the empty string ("a,,b" in the csv)
CandidateIds == CmpRuns \cup {""}

CandidateLists ==
    UNION {[1..n -> CandidateIds] : n \in 0..MaxCandidates}

NoComparison == [kind |-> "none", error |-> "none", baseline |-> "none",
                 candidates |-> << >>]

\* raise ValueError(...) / raise KeyError(...)
Rejected(error) == [kind |-> "error", error |-> error, baseline |-> "none",
                    candidates |-> << >>]

\* candidate_run_ids after "run_id and run_id != baseline_run_id" filtered it
KeptCandidates(baseline, candidates) ==
    SelectSeq(candidates, LAMBDA run_id : run_id # "" /\ run_id # baseline)

\* "if not run_info: raise KeyError"
NotFound(db, run_id) == ~db[run_id].exists

\* info.get("status") != "completed"
Incomplete(db, run_id) == db[run_id].status # "completed"

\* a check that looks at the dataset name only
MismatchedMut(db, baseline, run_id) ==
    db[run_id].dataset_name # db[baseline].dataset_name

\* dataset_name or dataset_split differs from the baseline's
Mismatched(db, baseline, run_id) ==
    \/ db[run_id].dataset_name # db[baseline].dataset_name
    \/ db[run_id].dataset_split # db[baseline].dataset_split

\* "if not metrics: raise ValueError"
NoMetricsRow(db, run_id) == ~db[run_id].has_metrics

\* compare_benchmarks: the guardrails in the order of the code, then the
\* comparison of the baseline with the candidates that were kept
CompareBenchmarks(db, baseline, candidates) ==
    LET kept == KeptCandidates(baseline, candidates)
        all_run_ids == <<baseline>> \o kept
        runs == Range(all_run_ids)
    IN  IF candidates = << >> THEN Rejected("ValueError")
        ELSE IF kept = << >> THEN Rejected("ValueError")
        ELSE IF \E r \in runs : NotFound(db, r) THEN Rejected("KeyError")
        ELSE IF \E r \in runs : Incomplete(db, r) THEN Rejected("ValueError")
        ELSE IF \E r \in runs : Mismatched(db, baseline, r)
             THEN Rejected("ValueError")
        ELSE IF \E r \in runs : NoMetricsRow(db, r) THEN Rejected("ValueError")
        ELSE [kind |-> "comparison", error |-> "none", baseline |-> baseline,
              candidates |-> kept]

CIdle ==
    /\ cDb = [r \in CmpRuns |-> NoRun]
    /\ cReq = [baseline |-> "R0", candidates |-> << >>]
    /\ cResult = NoComparison

\* a database and a request of GET /compare
CInit ==
    /\ cDb \in [CmpRuns -> RunInfos]
    /\ cReq \in [baseline : CmpRuns, candidates : CandidateLists]
    /\ cResult = NoComparison

\* one call of compare_benchmarks
CCompare ==
    /\ cResult = NoComparison
    /\ cResult' = CompareBenchmarks(cDb, cReq.baseline, cReq.candidates)
    /\ UNCHANGED <<cDb, cReq, otherThanC>>

----------------------------------------------------------------------------
(* Metric deltas: BenchmarkService._compute_delta *)

\* the largest metric value tried (a count, or a ratio or latency in units)
MaxMetric == 6

\* None
Nothing == [is_none |-> TRUE, v |-> 0]

Some(v) == [is_none |-> FALSE, v |-> v]

\* Optional[float]: None or a value
MetricValues == {Nothing} \cup {Some(v) : v \in 0..MaxMetric}

NoDelta == [returned |-> FALSE, value |-> Nothing, percent |-> Nothing,
            polarity |-> "none"]

\* percent is None when the baseline is 0; a percentage otherwise (kept as
\* the sign-carrying numerator, the quotient is not needed for the polarity)
Percent(delta, baseline_value) ==
    IF baseline_value # 0 THEN Some(delta * 100) ELSE Nothing

\* _compute_delta
ComputeDelta(baseline_value, candidate_value, positive_when_increases) ==
    IF baseline_value.is_none \/ candidate_value.is_none
    THEN [returned |-> TRUE, value |-> Nothing, percent |-> Nothing,
          polarity |-> "neutral"]
    ELSE LET delta == candidate_value.v - baseline_value.v
             percent == Percent(delta, baseline_value.v)
             polarity ==
                 IF delta = 0 \/ percent.is_none THEN "neutral"
                 ELSE IF positive_when_increases
                      THEN (IF delta > 0 THEN "positive" ELSE "negative")
                      ELSE (IF delta > 0 THEN "negative" ELSE "positive")
         IN  [returned |-> TRUE, value |-> Some(delta), percent |-> percent,
              polarity |-> polarity]

DIdle ==
    /\ dArgs = [baseline_value |-> Nothing, candidate_value |-> Nothing,
                positive_when_increases |-> TRUE]
    /\ dDelta = NoDelta

\* the metrics of a baseline and a candidate run, and the kind of metric
DInit ==
    /\ dArgs \in [baseline_value : MetricValues, candidate_value : MetricValues,
                  positive_when_increases : BOOLEAN]
    /\ dDelta = NoDelta

\* one call of _compute_delta from build_deltas
DComputeDelta ==
    /\ dDelta = NoDelta
    /\ dDelta' = ComputeDelta(dArgs.baseline_value, dArgs.candidate_value,
                              dArgs.positive_when_increases)
    /\ UNCHANGED <<dArgs, otherThanD>>

----------------------------------------------------------------------------
(* Per-sample changes of a comparison: compare_benchmarks, step 4 *)

\* the number of sample indices of the compared dataset
MaxCmpSamples == 2

CmpIndices == 0..(MaxCmpSamples - 1)

\* no benchmark_results row for the index
Absent == "absent"

ResultTypes ==
    {"TRUE_POSITIVE", "FALSE_POSITIVE", "TRUE_NEGATIVE", "FALSE_NEGATIVE",
     "ERROR"}

\* the rows of one run: the result_type stored per sample index, if any
RunRows == [CmpIndices -> ResultTypes \cup {Absent}]

\* get_results_by_sample_index(run_id): the run's rows keyed by sample_index;
\* the keys are the indices that have a row
ResultsBySampleIndex(rows) == {i \in CmpIndices : rows[i] # Absent}

\* a lookup table that also counts a recovered ERROR row as an improvement
ClassifySampleChangeMut(baseline_result_type, candidate_result_type) ==
    CASE baseline_result_type = "TRUE_POSITIVE"
            /\ candidate_result_type = "FALSE_NEGATIVE" -> "regression_tp_to_fn"
      [] baseline_result_type = "TRUE_NEGATIVE"
            /\ candidate_result_type = "FALSE_POSITIVE" -> "regression_tn_to_fp"
      [] baseline_result_type \in {"FALSE_NEGATIVE", "ERROR"}
            /\ candidate_result_type = "TRUE_POSITIVE" -> "improvement_fn_to_tp"
      [] baseline_result_type = "FALSE_POSITIVE"
            /\ candidate_result_type = "TRUE_NEGATIVE" -> "improvement_fp_to_tn"
      [] OTHER -> "unchanged"

\* _classify_sample_change: transitions.get((baseline, candidate), UNCHANGED)
ClassifySampleChange(baseline_result_type, candidate_result_type) ==
    CASE baseline_result_type = "TRUE_POSITIVE"
            /\ candidate_result_type = "FALSE_NEGATIVE" -> "regression_tp_to_fn"
      [] baseline_result_type = "TRUE_NEGATIVE"
            /\ candidate_result_type = "FALSE_POSITIVE" -> "regression_tn_to_fp"
      [] baseline_result_type = "FALSE_NEGATIVE"
            /\ candidate_result_type = "TRUE_POSITIVE" -> "improvement_fn_to_tp"
      [] baseline_result_type = "FALSE_POSITIVE"
            /\ candidate_result_type = "TRUE_NEGATIVE" -> "improvement_fp_to_tn"
      [] OTHER -> "unchanged"

\* sorted(set(baseline.keys()) & set(candidate.keys()))
CommonIndices(baseline_rows, candidate_rows) ==
    SelectSeq([k \in 1..MaxCmpSamples |-> k - 1],
              LAMBDA i : i \in ResultsBySampleIndex(baseline_rows)
                              \cap ResultsBySampleIndex(candidate_rows))

\* the payload list of one change type, in the order of the loop
ChangeList(baseline_rows, candidate_rows, change_type) ==
    SelectSeq(CommonIndices(baseline_rows, candidate_rows),
              LAMBDA i : ClassifySampleChange(baseline_rows[i], candidate_rows[i])
                             = change_type)

NoChanges ==
    [built |-> FALSE, critical |-> << >>, new_false_positives |-> << >>,
     new_detections |-> << >>, fixed_false_positives |-> << >>,
     total_regressions |-> 0, total_improvements |-> 0, net_change |-> 0]

\* the sample_changes entry of one candidate
SampleChanges(baseline_rows, candidate_rows) ==
    LET regressions_critical ==
            ChangeList(baseline_rows, candidate_rows, "regression_tp_to_fn")
        new_false_positives ==
            ChangeList(baseline_rows, candidate_rows, "regression_tn_to_fp")
        improvements_new_detections ==
            ChangeList(baseline_rows, candidate_rows, "improvement_fn_to_tp")
        improvements_fixed_fp ==
            ChangeList(baseline_rows, candidate_rows, "improvement_fp_to_tn")
        total_regressions == Len(regressions_critical) + Len(new_false_positives)
        total_improvements ==
            Len(improvements_new_detections) + Len(improvements_fixed_fp)
    IN  [built |-> TRUE,
         critical |-> regressions_critical,
         new_false_positives |-> new_false_positives,
         new_detections |-> improvements_new_detections,
         fixed_false_positives |-> improvements_fixed_fp,
         total_regressions |-> total_regressions,
         total_improvements |-> total_improvements,
         net_change |-> total_improvements - total_regressions]

KIdle ==
    /\ kRows = [baseline |-> [i \in CmpIndices |-> Absent],
                candidate |-> [i \in CmpIndices |-> Absent]]
    /\ kChanges = NoChanges

\* the stored results of a baseline and a candidate run
KInit ==
    /\ kRows \in [baseline : RunRows, candidate : RunRows]
    /\ kChanges = NoChanges

\* one turn of the loop over candidate_run_ids
KCompareSamples ==
    /\ kChanges = NoChanges
    /\ kChanges' = SampleChanges(kRows.baseline, kRows.candidate)
    /\ UNCHANGED <<kRows, otherThanK>>

----------------------------------------------------------------------------
(* Prompt-injection detectors: CustomONNXPromptInjectionDetector.detect and *)
(* DeBERTaPromptInjectionDetector.detect, called as the ML filter calls    *)
(* them: detect(text, context)                                             *)

\* the most injection keywords found in a text
MaxMatches == 4

DetectorKinds == {"custom_onnx", "deberta"}

\* what the model's inference does: a probability (in tenths) or an exception
InferenceOutcomes ==
    [raised : {FALSE}, score : {0, 5, 10}] \cup {[raised |-> TRUE, score |-> 0]}

\* _get_embedding: local model, Ollama after the local model failed, or None
EmbeddingOutcomes == {"local", "ollama", "none"}

DetectCalls ==
    [kind : DetectorKinds, load_ok : BOOLEAN, embedding : EmbeddingOutcomes,
     inference : InferenceOutcomes, matches : 0..MaxMatches]

NoDetectResult == [returned |-> FALSE, raised |-> "none", score |-> 0]

Returned(score) == [returned |-> TRUE, raised |-> "none", score |-> score]

\* the keyword fallback: 0.0, 0.3, 0.6, then min(0.9, 0.3 + (matches - 1) * 0.2)
FallbackDetection(matches) ==
    CASE matches = 0 -> 0
      [] matches = 1 -> 3
      [] matches = 2 -> 6
      [] OTHER -> Min2(9, 3 + (matches - 1) * 2)

\* CustomONNXPromptInjectionDetector.detect(text, context)
DetectCustomOnnx(call) ==
    IF call.load_ok
    THEN IF call.embedding # "none"
         THEN IF call.inference.raised
              THEN Returned(FallbackDetection(call.matches))
              ELSE Returned(Min2(IF call.inference.score < 0 THEN 0 ELSE call.inference.score, 10))
         ELSE Returned(FallbackDetection(call.matches))
    ELSE Returned(FallbackDetection(call.matches))

\* the body of DeBERTaPromptInjectionDetector.detect(self, text)
DetectDeberta(call) ==
    IF call.load_ok
    THEN IF call.inference.raised
         THEN Returned(FallbackDetection(call.matches))
         ELSE Returned(Min2(call.inference.score, 10))
    ELSE Returned(FallbackDetection(call.matches))

\* whether the detect method of the class has the context parameter of the
\* port: "def detect(self, text, context=None)" against "def detect(self, text)"
AcceptsContext(kind) == kind = "custom_onnx"

\* asyncio.to_thread(self.prompt_injection_detector.detect, text, context):
\* the call binds its two arguments, or raises TypeError before the body runs
Detect(call) ==
    IF ~AcceptsContext(call.kind)
    THEN [returned |-> FALSE, raised |-> "TypeError", score |-> 0]
    ELSE IF call.kind = "custom_onnx" THEN DetectCustomOnnx(call)
    ELSE DetectDeberta(call)

DtIdle ==
    /\ dtCall = [kind |-> "custom_onnx", load_ok |-> TRUE, embedding |-> "local",
                 inference |-> [raised |-> FALSE, score |-> 0], matches |-> 0]
    /\ dtResult = NoDetectResult

\* a configured detector, the state of its model and a text
DtInit ==
    /\ dtCall \in DetectCalls
    /\ dtResult = NoDetectResult

\* run_prompt_injection: one call of detect
DtDetect ==
    /\ dtResult = NoDetectResult
    /\ dtResult' = Detect(dtCall)
    /\ UNCHANGED <<dtCall, otherThanDt>>

----------------------------------------------------------------------------
(* WebSocket fan-out: core/realtime/connection_manager.py, events_queue.py *)

MaxConns == 3
Conns == 1..MaxConns

MaxEvents == 2

NoBroadcast == [active |-> FALSE, event |-> 0, idx |-> 0, current |-> 0,
                disconnected |-> << >>]

\* list.remove(websocket) after "websocket in self.active_connections"
Disconnect(conns, c) == SelectSeq(conns, LAMBDA x : x # c)

RECURSIVE DisconnectAll(_, _)
\* "for conn in disconnected: self.disconnect(conn)"
DisconnectAll(conns, failed) ==
    IF failed = << >> THEN conns
    ELSE DisconnectAll(Disconnect(conns, Head(failed)), Tail(failed))

\* the list iterator of "for connection in self.active_connections": it holds
\* an index into the live list and stops when the index reaches its length
IteratorHasNext(conns, idx) == idx < Len(conns)

WsInit ==
    /\ wsConns = << >>
    /\ wsQueue = << >>
    /\ wsNextEvent = 1
    /\ wsBcast = NoBroadcast
    /\ wsSent = {}
    /\ wsStayed = {}
    /\ wsDone = {}

\* a producer puts an event on the queue
WsPublish ==
    /\ wsNextEvent <= MaxEvents
    /\ wsQueue' = Append(wsQueue, wsNextEvent)
    /\ wsNextEvent' = wsNextEvent + 1
    /\ UNCHANGED <<wsConns, wsBcast, wsSent, wsStayed, wsDone, otherThanWs>>

\* connect(websocket): after accept, the connection is appended
WsConnect(c) ==
    /\ c \notin Range(wsConns)
    /\ wsConns' = Append(wsConns, c)
    /\ UNCHANGED <<wsQueue, wsNextEvent, wsBcast, wsSent, wsStayed, wsDone,
                   otherThanWs>>

\* disconnect(websocket), called by the endpoint handler or the heartbeat
\* task of the connection while the dispatcher is suspended in an await
WsDisconnect(c) ==
    /\ c \in Range(wsConns)
    /\ wsConns' = Disconnect(wsConns, c)
    /\ wsStayed' = wsStayed \ {c}
    /\ UNCHANGED <<wsQueue, wsNextEvent, wsBcast, wsSent, wsDone, otherThanWs>>

\* event_broadcaster: event = await event_queue.get(); broadcast(event) starts
WsTake ==
    /\ ~wsBcast.active
    /\ wsQueue # << >>
    /\ wsBcast' = [active |-> TRUE, event |-> Head(wsQueue), idx |-> 0,
                   current |-> 0, disconnected |-> << >>]
    /\ wsQueue' = Tail(wsQueue)
    /\ wsStayed' = Range(wsConns)
    /\ UNCHANGED <<wsConns, wsNextEvent, wsSent, wsDone, otherThanWs>>

\* the for loop takes the next connection and calls send_json on it
WsIterNext ==
    /\ wsBcast.active
    /\ wsBcast.current = 0
    /\ IteratorHasNext(wsConns, wsBcast.idx)
    /\ wsBcast' = [wsBcast EXCEPT !.current = wsConns[wsBcast.idx + 1],
                                  !.idx = @ + 1]
    /\ wsSent' = wsSent \cup {<<wsBcast.event, wsConns[wsBcast.idx + 1]>>}
    /\ UNCHANGED <<wsConns, wsQueue, wsNextEvent, wsStayed, wsDone, otherThanWs>>

\* the awaited send_json returns, or raises and the connection is noted in
\* the local list "disconnected"
WsSendDone ==
    /\ wsBcast.active
    /\ wsBcast.current # 0
    /\ \E ok \in BOOLEAN :
          wsBcast' = [wsBcast EXCEPT
                         !.current = 0,
                         !.disconnected = IF ok THEN @ ELSE Append(@, wsBcast.current)]
    /\ UNCHANGED <<wsConns, wsQueue, wsNextEvent, wsSent, wsStayed, wsDone,
                   otherThanWs>>

\* the iterator is exhausted: the failed connections are removed and
\* broadcast returns to the dispatcher loop
WsFinish ==
    /\ wsBcast.active
    /\ wsBcast.current = 0
    /\ ~IteratorHasNext(wsConns, wsBcast.idx)
    /\ wsConns' = DisconnectAll(wsConns, wsBcast.disconnected)
    /\ wsDone' = wsDone \cup {[event |-> wsBcast.event, stayed |-> wsStayed]}
    /\ wsBcast' = NoBroadcast
    /\ wsStayed' = {}
    /\ UNCHANGED <<wsQueue, wsNextEvent, wsSent, otherThanWs>>

----------------------------------------------------------------------------
(* Metrics store: metrics_manager.py *)

\* max_requests, scaled down
MaxStored == 3

\* add_request calls in one run of the model
MaxAdds == 5

\* largest limit passed to get_recent
MaxLimit == 4

SessionIds == {"none", "s1"}

\* a buffer that gives up its newest element instead
DropOldestMut(q) == SubSeq(q, 1, Len(q) - 1)

\* a full deque discards the item at the end opposite to the append
DropOldest(q) == Tail(q)

\* deque(maxlen=max_requests).append(event): a full deque discards an item
\* from the opposite end
DequeAppend(q, e) ==
    IF MaxStored = 0 THEN q
    ELSE IF Len(q) >= MaxStored THEN Append(DropOldest(q), e)
    ELSE Append(q, e)

\* the start index of the slice lst[-limit:] (Python slice semantics: a
\* negative start counts from the end, -0 is 0, out-of-range starts clamp)
SliceStart(len, limit) ==
    LET start == 0 - limit
    IN  IF start < 0
           THEN (IF start + len < 0 THEN 0 ELSE start + len)
           ELSE Min2(start, len)

\* list(self._requests)[-limit:]
LastSlice(q, limit) == SubSeq(q, SliceStart(Len(q), limit) + 1, Len(q))

\* reversed(recent)
Reversed(q) == [i \in 1..Len(q) |-> q[Len(q) + 1 - i]]

\* get_recent(limit): the events returned, by id
GetRecent(q, limit) ==
    LET recent == Reversed(LastSlice(q, limit))
    IN  [i \in 1..Len(recent) |-> recent[i].id]

\* get_stats()["total_prompts"]
TotalPrompts(q) == Len(q)

NoRecent == [called |-> FALSE, limit |-> 0, ids |-> << >>]

MInit ==
    /\ mRequests = << >>
    /\ mSessions = [sid \in SessionIds \ {"none"} |-> 0]
    /\ mAdded = 0
    /\ mRecent = NoRecent

\* add_request(event), under the lock
MAddRequest ==
    /\ mAdded < MaxAdds
    /\ \E sid \in SessionIds :
          /\ mRequests' = DequeAppend(mRequests,
                                      [id |-> mAdded + 1, session_id |-> sid])
          /\ mSessions' = IF sid = "none" THEN mSessions
                          ELSE [mSessions EXCEPT ![sid] = @ + 1]
    /\ mAdded' = mAdded + 1
    /\ UNCHANGED <<mRecent, otherThanM>>

\* get_recent(limit), under the lock
MGetRecent ==
    /\ \E limit \in 0..MaxLimit :
          mRecent' = [called |-> TRUE, limit |-> limit,
                      ids |-> GetRecent(mRequests, limit)]
    /\ UNCHANGED <<mRequests, mSessions, mAdded, otherThanM>>

----------------------------------------------------------------------------
(* WebSocket endpoint and heartbeat: semantic_firewall.py websocket_dashboard,
   core/realtime/connection_manager.py heartbeat_sender *)

\* self.heartbeat_interval and self.heartbeat_timeout, in seconds
HeartbeatInterval == 30
HeartbeatTimeout == 90

\* the silence counter saturates here
MaxSilentTicks == 5

\* the numbers of silent heartbeat intervals that amount to more than
\* heartbeat_timeout seconds
OverTimeout == {n \in 0..MaxSilentTicks : n * HeartbeatInterval > HeartbeatTimeout}

HbInit ==
    /\ hbPc = [c \in Conns |-> "none"]
    /\ hbSilence = [c \in Conns |-> 0]

\* websocket_dashboard: manager.connect(websocket), the heartbeat task is
\* created, the handler waits in receive_json
HbOpen(c) ==
    /\ c \notin Range(wsConns)
    /\ hbPc[c] = "none"
    /\ wsConns' = Append(wsConns, c)
    /\ hbPc' = [hbPc EXCEPT ![c] = "sleep"]
    /\ hbSilence' = [hbSilence EXCEPT ![c] = 0]
    /\ UNCHANGED otherThanHb

\* heartbeat_sender: asyncio.sleep(self.heartbeat_interval) returns; a
\* connection still in the list is pinged, otherwise the task ends
HbWake(c) ==
    /\ hbPc[c] = "sleep"
    /\ hbSilence' = [hbSilence EXCEPT ![c] = Min2(@ + 1, MaxSilentTicks)]
    /\ hbPc' = [hbPc EXCEPT ![c] = IF c \in Range(wsConns) THEN "send" ELSE "none"]
    /\ UNCHANGED <<wsConns, otherThanHb>>

\* heartbeat_sender: send_json({"type": "ping"}) returns and the loop goes
\* back to sleep, or raises and the connection is removed
HbPingDone(c) ==
    /\ hbPc[c] = "send"
    /\ \/ /\ hbPc' = [hbPc EXCEPT ![c] = "sleep"]
          /\ UNCHANGED wsConns
       \/ /\ hbPc' = [hbPc EXCEPT ![c] = "none"]
          /\ wsConns' = Disconnect(wsConns, c)
    /\ UNCHANGED <<hbSilence, otherThanHb>>

\* websocket_dashboard: receive_json returns a message (a pong or any other);
\* the handler logs and waits again
HbReceive(c) ==
    /\ c \in Range(wsConns)
    /\ hbPc[c] # "none"
    /\ hbSilence[c] > 0
    /\ hbSilence' = [hbSilence EXCEPT ![c] = 0]
    /\ UNCHANGED <<wsConns, hbPc, otherThanHb>>

\* websocket_dashboard: receive_json raises WebSocketDisconnect or another
\* exception: manager.disconnect(websocket); heartbeat_task.cancel()
HbClientGone(c) ==
    /\ hbPc[c] # "none"
    /\ wsConns' = Disconnect(wsConns, c)
    /\ hbPc' = [hbPc EXCEPT ![c] = "none"]
    /\ UNCHANGED <<hbSilence, otherThanHb>>

----------------------------------------------------------------------------
(* Specifications *)

vars == <<mlVars, execVars, gwVars, fVars, bVars, wsVars, mVars, hbVars, pVars, oVars, sVars, cVars, dVars, kVars, qVars, dtVars, lVars>>

MLNext ==
    \/ MLStart
    \/ \E d \in Detectors : DetFinish(d)
    \/ MLJoin
    \/ MLReset

ExecNext == ExecuteCall

GwNext ==
    \/ \E r \in Requests : GwReceive(r)
    \/ \E r \in Requests : GwPreprocess(r)
    \/ \E r \in Requests : GwMLAnalyze(r)
    \/ \E r \in Requests : GwPolicy(r)
    \/ \E r \in Requests : GwOrchestrate(r)
    \/ \E r \in Requests : GwBackend(r)
    \/ \E r \in Requests : GwRespond(r)

\* the gateway with an action orchestrator whose execute can raise
GwFaultNext ==
    \/ GwNext
    \/ \E r \in Requests : GwOrchestrateFails(r)

\* FirewallOrchestrator.process_chat_request under a direct caller
OrNext ==
    \/ \E r \in Requests : OrReceive(r)
    \/ \E r \in Requests : GwPreprocess(r)
    \/ \E r \in Requests : GwMLAnalyze(r)
    \/ \E r \in Requests : GwPolicy(r)
    \/ \E r \in Requests : GwOrchestrate(r)
    \/ \E r \in Requests : GwBackend(r)
    \/ \E r \in Requests : OrFinish(r)

\* benchmark samples sent through the orchestrator
SNext ==
    \/ \E r \in Requests : GwReceive(r)
    \/ \E r \in Requests : GwPreprocess(r)
    \/ \E r \in Requests : GwMLAnalyze(r)
    \/ \E r \in Requests : GwPolicy(r)
    \/ \E r \in Requests : GwOrchestrate(r)
    \/ \E r \in Requests : GwBackend(r)
    \/ \E r \in Requests : SProcessSample(r)

FNext ==
    \/ \E t \in Threads, k \in CacheKeys : FCheck(t, k)
    \/ \E t \in Threads : FConstruct(t)
    \/ \E t \in Threads : FStore(t)
    \/ \E t \in Threads : FDone(t)

\* the factory with callers of clear_cache
FClearNext ==
    \/ FNext
    \/ \E t \in Threads : FClearCount(t)
    \/ \E t \in Threads : FClear(t)

BNext ==
    \/ BStart
    \/ BCancel
    \/ BBatchStart
    \/ BCancelSeen
    \/ BMarkCancelled
    \/ \E i \in SampleIdx : BSampleAcquire(i)
    \/ \E i \in SampleIdx : BSampleFinish(i)
    \/ BGatherDone
    \/ BPersist
    \/ BProgress
    \/ BLoopExit
    \/ BSaveMetrics
    \/ BSetCompleted

HbNext ==
    \/ \E c \in Conns : HbOpen(c)
    \/ \E c \in Conns : HbWake(c)
    \/ \E c \in Conns : HbPingDone(c)
    \/ \E c \in Conns : HbReceive(c)
    \/ \E c \in Conns : HbClientGone(c)

\* the event loop runs every task that can run: a sleep returns, a send
\* returns or raises; what the client does is not constrained
HbFairness ==
    \A c \in Conns : WF_vars(HbWake(c)) /\ WF_vars(HbPingDone(c))

MNext ==
    \/ MAddRequest
    \/ MGetRecent

WsNext ==
    \/ WsPublish
    \/ \E c \in Conns : WsConnect(c)
    \/ \E c \in Conns : WsDisconnect(c)
    \/ WsTake
    \/ WsIterNext
    \/ WsSendDone
    \/ WsFinish

\* every specification runs one subsystem and holds the others at rest
PNext == PAnalyzeContent

ONext == OEvaluate

\* a run over a database whose calls can raise
BFaultNext ==
    \/ BNext
    \/ BDbRaises
    \/ BSetFailed
    \/ BSetFailedRaises

\* the steps of the background task of a run
BRunStep ==
    \/ BBatchStart
    \/ BCancelSeen
    \/ BMarkCancelled
    \/ \E i \in SampleIdx : BSampleAcquire(i)
    \/ \E i \in SampleIdx : BSampleFinish(i)
    \/ BGatherDone
    \/ BPersist
    \/ BProgress
    \/ BLoopExit
    \/ BSaveMetrics
    \/ BSetCompleted

\* the event loop runs the task whenever it can run: every call it awaits
\* returns; when cancel_benchmark is called is not constrained
BFairness == WF_vars(BRunStep)

CNext == CCompare

DNext == DComputeDelta

KNext == KCompareSamples

\* the chat endpoint of a started server
QNext ==
    \/ QInitEventQueue
    \/ \E r \in Requests : QReceive(r)
    \/ \E r \in Requests : GwPreprocess(r)
    \/ \E r \in Requests : GwMLAnalyze(r)
    \/ \E r \in Requests : GwPolicy(r)
    \/ \E r \in Requests : GwOrchestrate(r)
    \/ \E r \in Requests : GwBackend(r)
    \/ \E r \in Requests : GwRespond(r)

DtNext == DtDetect

LNext ==
    \/ LTick
    \/ LStart
    \/ \E d \in Detectors : LDetStart(d)
    \/ \E d \in Detectors : LDetEnd(d)
    \/ LJoin

InitML == MLInit /\ ExecIdle /\ GwInit /\ FInit /\ BInit /\ WsInit /\ MInit /\ HbInit /\ PInit /\ OInit /\ SInit /\ CIdle /\ DIdle /\ KIdle /\ QInit /\ DtIdle /\ LInit

InitExec == MLIdle /\ ExecInit /\ GwInit /\ FInit /\ BInit /\ WsInit /\ MInit /\ HbInit /\ PInit /\ OInit /\ SInit /\ CIdle /\ DIdle /\ KIdle /\ QInit /\ DtIdle /\ LInit

InitIdle == MLIdle /\ ExecIdle /\ GwInit /\ FInit /\ BInit /\ WsInit /\ MInit /\ HbInit /\ PInit /\ OInit /\ SInit /\ CIdle /\ DIdle /\ KIdle /\ QInit /\ DtIdle /\ LInit

InitDetect == MLIdle /\ ExecIdle /\ GwInit /\ FInit /\ BInit /\ WsInit /\ MInit /\ HbInit /\ PInit /\ OInit /\ SInit /\ CIdle /\ DIdle /\ KIdle /\ QInit /\ DtInit /\ LInit

InitSamples == MLIdle /\ ExecIdle /\ GwInit /\ FInit /\ BInit /\ WsInit /\ MInit /\ HbInit /\ PInit /\ OInit /\ SInit /\ CIdle /\ DIdle /\ KInit /\ QInit /\ DtIdle /\ LInit

InitDelta == MLIdle /\ ExecIdle /\ GwInit /\ FInit /\ BInit /\ WsInit /\ MInit /\ HbInit /\ PInit /\ OInit /\ SInit /\ CIdle /\ DInit /\ KIdle /\ QInit /\ DtIdle /\ LInit

InitCompare == MLIdle /\ ExecIdle /\ GwInit /\ FInit /\ BInit /\ WsInit /\ MInit /\ HbInit /\ PInit /\ OInit /\ SInit /\ CInit /\ DIdle /\ KIdle /\ QInit /\ DtIdle /\ LInit

SpecML == InitML /\ [][MLNext]_vars
SpecExec == InitExec /\ [][ExecNext]_vars
SpecGateway == InitIdle /\ [][GwNext]_vars
SpecFactory == InitIdle /\ [][FNext]_vars
SpecBenchmark == InitIdle /\ [][BNext]_vars
SpecWebSocket == InitIdle /\ [][WsNext]_vars
SpecMetrics == InitIdle /\ [][MNext]_vars
SpecHeartbeat == InitIdle /\ [][HbNext]_vars /\ HbFairness
SpecPolicy == InitIdle /\ [][PNext]_vars
SpecOpa == InitIdle /\ [][ONext]_vars
SpecGatewayFault == InitIdle /\ [][GwFaultNext]_vars
SpecBenchmarkFair == InitIdle /\ [][BNext]_vars /\ BFairness
SpecBenchSample == InitIdle /\ [][SNext]_vars
SpecCompare == InitCompare /\ [][CNext]_vars
SpecDelta == InitDelta /\ [][DNext]_vars
SpecCompareSamples == InitSamples /\ [][KNext]_vars
SpecGatewayEvents == InitIdle /\ [][QNext]_vars
SpecDetect == InitDetect /\ [][DtNext]_vars
SpecLatency == InitIdle /\ [][LNext]_vars
SpecBenchmarkFault == InitIdle /\ [][BFaultNext]_vars
SpecOrchestrator == InitIdle /\ [][OrNext]_vars
SpecFactoryClear == InitIdle /\ [][FClearNext]_vars
Spec == SpecGateway

----------------------------------------------------------------------------
(* Claims *)

EventsOf(r) == SelectSeq(gwEvents, LAMBDA e : e.id = r)

Answered(r) == gwPc[r] = "done" /\ gwResponse[r].kind \in {"allowed", "blocked"}

\* C1: for every chat request that ends with an allowed or blocked response,
\* the response's blocked flag equals the blocked flag of the policy decision
\* of the request, an event is recorded for the request, and the event's
\* action is "block" exactly when the response is blocked.
C1_ViewsAgree ==
    \A r \in Requests :
        Answered(r) =>
            /\ gwResponse[r].blocked <=> gwReq[r].decision.blocked
            /\ Len(EventsOf(r)) >= 1
            /\ \A i \in DOMAIN EventsOf(r) :
                  gwResponse[r].blocked <=> (EventsOf(r)[i].action = "block")

\* one request answered blocked and another answered allowed
C1_Witness ==
    \E r1, r2 \in Requests :
        /\ Answered(r1) /\ gwResponse[r1].blocked
        /\ Answered(r2) /\ ~gwResponse[r2].blocked

ExecutedFor(rid, blocked) ==
    \E k \in DOMAIN execCalls :
        execCalls[k].request_id = rid /\ execCalls[k].decision.blocked = blocked

\* C2: the backend is called only as the fifth stage of a request, after
\* preprocessing, ML, policy and the action orchestrator in this order, with
\* an allow decision of the ingress analysis that the action orchestrator has
\* executed; a request whose ingress decision is block never reaches the
\* backend.
C2_BackendAfterAllow ==
    \A r \in Requests :
        LET t == gwReq[r].trace
        IN  /\ \A i \in DOMAIN t :
                  t[i] = "backend" =>
                      /\ i = 5
                      /\ SubSeq(t, 1, 4) = <<"preprocess", "ml", "policy", "orchestrator">>
                      /\ gwReq[r].ingress_decision.present
                      /\ ~gwReq[r].ingress_decision.blocked
                      /\ ExecutedFor(<<r, "ingress">>, FALSE)
            /\ (gwReq[r].ingress_decision.present /\ gwReq[r].ingress_decision.blocked)
                  => "backend" \notin Range(t)

\* one request has reached the backend and another was blocked at ingress
\* and answered
C2_Witness ==
    \E r1, r2 \in Requests :
        /\ "backend" \in Range(gwReq[r1].trace)
        /\ gwReq[r2].ingress_decision.blocked
        /\ gwPc[r2] = "done"

\* C3: for every cache key, whatever the number of concurrent first calls
\* into the factory, the detector of the key is constructed at most once and
\* every caller is handed the same instance.
C3_ConstructedOnce ==
    \A k \in CacheKeys :
        /\ Cardinality(fBuilt[k]) <= 1
        /\ Cardinality(fHanded[k]) <= 1

\* C4: analyze never raises; when a detector throws, analyze returns an
\* MLSignals value with a zero score for the failing detector and the results
\* of the other detectors.
C4_DetectorFailureTolerated ==
    /\ mlPc # "raised"
    /\ mlPc = "returned" =>
          /\ mlResult.pii_score = mlBehaviour["pii"].score
          /\ mlResult.toxicity_score = mlBehaviour["toxicity"].score
          /\ mlResult.prompt_injection_score = mlBehaviour["prompt_injection"].score
          /\ mlResult.heuristic_blocked = mlBehaviour["heuristic"].blocked

CallsFor(rid) == SelectSeq(execCalls, LAMBDA c : c.request_id = rid)

\* C5: with an idempotency store wired, after any number of calls of execute
\* with one request_id there is exactly one decision log entry for it (that of
\* the first call), at most one alert, the stored decision is the first
\* call's, and every later call left only a debug record.
C5_ExecuteIdempotent ==
    storeWired =>
        \A rid \in ExecIds :
            LET calls == CallsFor(rid)
                logged == SelectSeq(decisionLog, LAMBDA e : e.request_id = rid)
                alerts == SelectSeq(alertLog, LAMBDA a : a.request_id = rid)
                debugs == SelectSeq(debugLog, LAMBDA x : x = rid)
            IN  Len(calls) >= 1 =>
                    /\ Len(logged) = 1
                    /\ logged[1].blocked = calls[1].decision.blocked
                    /\ Len(alerts) <= 1
                    /\ idemStore[rid] = [present |-> TRUE,
                                         decision |-> calls[1].decision.blocked,
                                         reason |-> calls[1].decision.reason]
                    /\ Len(debugs) = Len(calls) - 1

\* execute was called twice with one request_id and different decisions, the
\* first an allow and the second a block that would raise an alert
C5_Witness ==
    /\ storeWired
    /\ alerterWired
    /\ \E rid \in ExecIds :
          /\ Len(CallsFor(rid)) >= 2
          /\ ~CallsFor(rid)[1].decision.blocked
          /\ CallsFor(rid)[2].decision.blocked
          /\ CallsFor(rid)[2].decision.confidence > 8

\* C6: when cancel_benchmark has returned true for the run and the background
\* task has ended, the persisted status of the run is cancelled, wherever in
\* the run the request arrived; the run is not left in status running.
C6_CancelReachesStatus ==
    (bCancelAccepted /\ bPc = "ended") => bDbStatus = "cancelled"

Processed == {i \in SampleIdx : bSample[i] \in Outcomes \cup {"collected"}}

\* C7: once the cancellation flag is set no batch is started, and at most
\* batch_size samples finish their processing after the flag was set; when the
\* flag is set before the first batch has been left, at most batch_size
\* samples are ever processed in the run.
C7_NoBatchAfterCancel ==
    /\ [](bStartedAfterCancel = 0 /\ bAfterCancel <= BatchSize)
    /\ []((bCancelFlag = "true" /\ bBatchStart = 0)
             => [](Cardinality(Processed) <= BatchSize))

\* the flag was set while a full batch was queued, every sample of that batch
\* was then processed, and the task ended with samples of the run left over
C7_Witness ==
    /\ bAfterCancel = BatchSize
    /\ bPc = "ended"
    /\ bCancelAccepted
    /\ Len(bResults) < bTotal

RowsOf(i) == SelectSeq(bDbRows, LAMBDA row : row.sample_index = i)

ErrorRows == SelectSeq(bDbRows, LAMBDA row : row.result_type = "ERROR")

\* C8: when the persisted status of the run is completed, every sample of the
\* run has exactly one persisted result row, and the four counts of the saved
\* metrics plus the number of ERROR rows equal the number of samples.
C8_CompletedAddsUp ==
    bDbStatus = "completed" =>
        /\ \A i \in 0..(bTotal - 1) : Len(RowsOf(i)) = 1
        /\ Len(bDbRows) = bTotal
        /\ bDbMetrics.present
        /\ bDbMetrics.true_positives + bDbMetrics.false_positives
             + bDbMetrics.true_negatives + bDbMetrics.false_negatives
             + Len(ErrorRows) = bTotal

\* a completed run of more than one batch with an error row and a counted row
C8_Witness ==
    /\ bDbStatus = "completed"
    /\ bTotal > BatchSize
    /\ Len(ErrorRows) >= 1
    /\ bDbMetrics.total_samples >= 1

InFlight == {i \in SampleIdx : bSample[i] = "running"}

\* C9: at every moment the number of samples inside process_sample is at most
\* max_concurrent_samples.
C9_BoundedInFlight == Cardinality(InFlight) <= MaxConcurrentSamples

\* the semaphore is exhausted while a task of the batch is still waiting
C9_Witness ==
    /\ Cardinality(InFlight) = MaxConcurrentSamples
    /\ \E i \in SampleIdx : bSample[i] = "queued"

\* C10: every completed broadcast has called send_json, with its event, on
\* every connection that was in the list from the start of the broadcast to
\* its end, whatever connects, disconnects and failed sends happened meanwhile.
C10_NoLiveSubscriberSkipped ==
    \A d \in wsDone : \A c \in d.stayed : <<d.event, c>> \in wsSent

\* the ids of the events in the buffer, oldest first
StoredIds == [i \in 1..Len(mRequests) |-> mRequests[i].id]

\* the ids of the n most recently added events, oldest first
NewestIds(n) == [i \in 1..n |-> mAdded - n + i]

\* C11: after any sequence of inserts the buffer holds at most max_requests
\* events, and it holds exactly the min(N, max_requests) most recently
\* inserted ones in insertion order; total_prompts is the buffer's size.
C11_RingBufferBounded ==
    /\ Len(mRequests) <= MaxStored
    /\ TotalPrompts(mRequests) = Min2(mAdded, MaxStored)
    /\ StoredIds = NewestIds(Min2(mAdded, MaxStored))

\* more events were inserted than the buffer holds
C11_Witness ==
    /\ mAdded > MaxStored + 1
    /\ Len(mRequests) = MaxStored

\* C12: get_recent(limit) returns, for every limit >= 0, the
\* min(limit, size) most recently inserted events, newest first, and never
\* more than limit events.
C12_RecentNewestFirst ==
    mRecent.called =>
        /\ Len(mRecent.ids) <= mRecent.limit
        /\ mRecent.ids = Reversed(NewestIds(Min2(mRecent.limit, Len(mRequests))))

\* C13: a connection from which nothing has been received for more than
\* heartbeat_timeout seconds is eventually removed from the list of active
\* connections (stated in its weakest form: unless a message arrives from it
\* after all, so that only a connection that stays silent counts).
C13_SilentConnectionClosed ==
    \A c \in Conns :
        (c \in Range(wsConns) /\ hbSilence[c] \in OverTimeout)
            ~> (c \notin Range(wsConns) \/ hbSilence[c] \notin OverTimeout)

\* the last analyze_content call ran under the loader's default rules
Baseline ==
    /\ pDecision.present
    /\ pPolicies = [rules |-> DefaultRules, default_action |-> DefaultAction]

\* C14: under the baseline rules, whenever the heuristic detector reports
\* blocked, the decision is block with reason "Heuristic detection blocked"
\* and confidence >= 0.9, whatever the PII, toxicity and prompt-injection
\* scores and the prompt length are.
C14_HeuristicBlocks ==
    (Baseline /\ pSignals.heuristic_blocked) =>
        /\ pDecision.blocked
        /\ pDecision.reason = "Heuristic detection blocked"
        /\ pDecision.confidence >= 9

\* the heuristic blocked a long prompt on which the other rules' scores are
\* over their thresholds as well
C14_Witness ==
    /\ Baseline
    /\ pSignals.heuristic_blocked
    /\ pSignals.pii_score = 9
    /\ pSignals.toxicity_score = 8
    /\ pSignals.prompt_injection_score = 9
    /\ pLength = 4001
    /\ pDecision.blocked

\* C15: under the baseline rules, every request whose prompt_injection_score
\* is greater than 0.8 gets a block decision, also when the heuristic did not
\* block and the PII and toxicity scores are below their thresholds.
C15_PromptInjectionBlocks ==
    (Baseline /\ pSignals.prompt_injection_score > 8) => pDecision.blocked

\* no detector signal is over its baseline threshold
SignalsBelowThresholds ==
    /\ ~pSignals.heuristic_blocked
    /\ pSignals.pii_score <= 8
    /\ pSignals.toxicity_score <= 7
    /\ pSignals.prompt_injection_score <= 8

\* C16: with all detector signals below their thresholds, a prompt whose
\* length feature is exactly 4000 is allowed and a prompt whose length feature
\* is 4001 is blocked with a reason containing "too long".
C16_LengthLimit ==
    (Baseline /\ SignalsBelowThresholds) =>
        /\ pLength = 4000 => ~pDecision.blocked
        /\ pLength = 4001 =>
              pDecision.blocked /\ pDecision.reason = "Prompt too long"

\* rule i of the loaded table holds for the request of the last call
RuleHolds(i) == ConditionHolds(pPolicies.rules[i].condition, pSignals, pLength)

C18_BlockedHasReason ==
    (pDecision.present /\ pDecision.blocked) =>
        /\ pDecision.reason \notin {"None", ""}
        /\ pRaised.raised
        /\ pRaised.reason \notin {"None", ""}

\* the last evaluate call met an error: no policy text, a failed upload of
\* the policy, or a failed query
OpaErrored ==
    /\ oResult.present
    /\ \/ oCall.rego = "none"
       \/ oCall.loaded # oCall.rego /\ oCall.put \in {"status_error", "transport_error"}
       \/ oCall.post \in {"malformed", "status_error", "transport_error"}

\* C19: the OPA evaluator fails open: on any transport error, upload error or
\* evaluator error during evaluate it returns an allow decision with
\* confidence 0.0; it never raises and never returns block in that case.
C19_OpaFailsOpen ==
    /\ ~oResult.raised
    /\ OpaErrored => ~oResult.blocked /\ oResult.confidence = 0

\* the upload succeeded, the query met a transport error although the policy
\* would have blocked, and the call returned
C19_Witness ==
    /\ OpaErrored
    /\ oCall.rego # "none" /\ oCall.loaded # oCall.rego /\ oCall.put = "ok"
    /\ oCall.post = "transport_error"
    /\ oCall.answer.blocked
    /\ oLoaded = oCall.rego
    /\ ~oResult.blocked

\* execute raised while request r was orchestrated
ExecuteFailed(r) == "execute_failed" \in Range(gwReq[r].trace)

\* C20: a failure of the action orchestrator's execute does not change the
\* outcome of the request: an allowed request is still proxied and answered,
\* and a blocked request still yields the blocked response.
C20_ExecuteFailureHarmless ==
    \A r \in Requests :
        (gwPc[r] = "done" /\ ExecuteFailed(r)) =>
            IF gwReq[r].decision.blocked
            THEN gwResponse[r].kind = "blocked"
            ELSE /\ "backend" \in Range(gwReq[r].trace)
                 /\ gwResponse[r].kind \in {"allowed", "http_502"}

\* C21: a failure while processing one sample produces exactly one result row
\* of type ERROR for that sample and does not stop the run: the rows written
\* for a failed sample are a single ERROR row, in a completed run every sample
\* has exactly one row, and a run in which a sample failed still reaches
\* status completed (unless it is cancelled).
C21_SampleFailureIsolated ==
    /\ [](\A i \in bFailed :
             /\ Len(RowsOf(i)) <= 1
             /\ \A k \in DOMAIN RowsOf(i) : RowsOf(i)[k].result_type = "ERROR")
    /\ [](bDbStatus = "completed" =>
             \A i \in 0..(bTotal - 1) :
                 /\ Len(RowsOf(i)) = 1
                 /\ i \in bFailed <=> RowsOf(i)[1].result_type = "ERROR")
    /\ (bFailed # {} /\ ~bCancelAccepted)
           ~> (bDbStatus = "completed" \/ bCancelAccepted)

\* a completed run of more than one batch whose first sample failed while a
\* later sample was classified
C21_Witness ==
    /\ bDbStatus = "completed"
    /\ bTotal > BatchSize
    /\ 0 \in bFailed
    /\ bTotal - 1 \notin bFailed

\* C22: processing a benchmark sample never sends a request to the backend,
\* whether the sample is allowed or blocked.
C22_SampleSkipsBackend ==
    \A r \in Requests :
        sRecord[r].present => "backend" \notin Range(gwReq[r].trace)

\* the run rows of a request satisfy the guardrails on existence, status,
\* dataset and metrics
RunsComparable(runs) ==
    \A r \in runs :
        /\ cDb[r].exists
        /\ cDb[r].status = "completed"
        /\ cDb[r].dataset_name = cDb[cReq.baseline].dataset_name
        /\ cDb[r].dataset_split = cDb[cReq.baseline].dataset_split
        /\ cDb[r].has_metrics

\* the runs the request names
RequestedRuns == {cReq.baseline} \cup (Range(cReq.candidates) \ {""})

\* the candidates of the request other than the baseline and the empty id
OtherCandidates == Range(cReq.candidates) \ {cReq.baseline, ""}

\* C23 as stated: a comparison is produced only if every guardrail holds,
\* among them that no candidate is the baseline; a request that violates any
\* guardrail is rejected with an error and no comparison is returned.
C23_GuardrailsAsStated ==
    cResult # NoComparison =>
        IF /\ cReq.candidates # << >>
           /\ cReq.baseline \notin Range(cReq.candidates)
           /\ "" \notin Range(cReq.candidates)
           /\ RunsComparable(RequestedRuns)
        THEN cResult.kind = "comparison"
        ELSE cResult.kind = "error"

\* C23 (amended): candidates that are empty or equal to the baseline are dropped from the
\* request; a comparison is produced exactly when a candidate remains and the
\* baseline and every remaining candidate exist, are completed, share the
\* baseline's dataset_name and dataset_split and have metrics; it covers the
\* remaining candidates only, none of which is the baseline; every other
\* request is rejected with an error.
C23_Guardrails ==
    cResult # NoComparison =>
        IF OtherCandidates # {} /\ RunsComparable({cReq.baseline} \cup OtherCandidates)
        THEN /\ cResult.kind = "comparison"
             /\ cResult.baseline = cReq.baseline
             /\ Range(cResult.candidates) = OtherCandidates
        ELSE cResult.kind = "error"

\* a comparison came back for a request with a candidate on the same dataset
\* name as the baseline
C23_Witness ==
    /\ cResult.kind = "comparison"
    /\ Len(cResult.candidates) >= 1

\* a request was rejected only because a candidate's split differs
C23_WitnessRejected ==
    /\ cResult.kind = "error"
    /\ \E r \in OtherCandidates :
          /\ cDb[r].exists /\ cDb[r].status = "completed" /\ cDb[r].has_metrics
          /\ cDb[r].dataset_name = cDb[cReq.baseline].dataset_name
          /\ cDb[r].dataset_split # cDb[cReq.baseline].dataset_split

\* the polarity the sign of the delta gives for a metric of the given kind
PolarityOfSign(delta, positive_when_increases) ==
    IF delta = 0 THEN "neutral"
    ELSE IF (delta > 0) = positive_when_increases THEN "positive"
    ELSE "negative"

\* C24: for two metric values the delta is candidate - baseline and the
\* polarity follows its sign: positive exactly when a higher-is-better metric
\* grew or a lower-is-better metric shrank, negative in the opposite case,
\* neutral exactly when the values are equal, for every baseline value,
\* including zero.
C24_PolarityFollowsSign ==
    (dDelta.returned /\ ~dArgs.baseline_value.is_none
                     /\ ~dArgs.candidate_value.is_none) =>
        /\ dDelta.value = Some(dArgs.candidate_value.v - dArgs.baseline_value.v)
        /\ dDelta.polarity =
              PolarityOfSign(dArgs.candidate_value.v - dArgs.baseline_value.v,
                             dArgs.positive_when_increases)

\* the sample indices with a row in both runs whose result types are the pair
Moved(from, to) ==
    {i \in CmpIndices : kRows.baseline[i] = from /\ kRows.candidate[i] = to}

\* the sample indices with a row in both runs
InBothRuns ==
    {i \in CmpIndices : kRows.baseline[i] # Absent /\ kRows.candidate[i] # Absent}

\* C25: every sample index present in both runs falls into exactly one of
\* TP->FN regression, TN->FP regression, FN->TP improvement, FP->TN
\* improvement or unchanged, decided by its (baseline, candidate) result
\* types, indices missing from a run are in no list, and net_change is the
\* number of improvements minus the number of regressions.
C25_SampleChanges ==
    kChanges.built =>
        /\ Range(kChanges.critical) = Moved("TRUE_POSITIVE", "FALSE_NEGATIVE")
        /\ Range(kChanges.new_false_positives)
              = Moved("TRUE_NEGATIVE", "FALSE_POSITIVE")
        /\ Range(kChanges.new_detections)
              = Moved("FALSE_NEGATIVE", "TRUE_POSITIVE")
        /\ Range(kChanges.fixed_false_positives)
              = Moved("FALSE_POSITIVE", "TRUE_NEGATIVE")
        /\ \A i \in InBothRuns :
              Cardinality({l \in {"critical", "new_false_positives",
                                  "new_detections", "fixed_false_positives"} :
                              i \in Range(kChanges[l])}) <= 1
        /\ kChanges.total_regressions
              = Cardinality(Moved("TRUE_POSITIVE", "FALSE_NEGATIVE"))
                + Cardinality(Moved("TRUE_NEGATIVE", "FALSE_POSITIVE"))
        /\ kChanges.total_improvements
              = Cardinality(Moved("FALSE_NEGATIVE", "TRUE_POSITIVE"))
                + Cardinality(Moved("FALSE_POSITIVE", "TRUE_NEGATIVE"))
        /\ kChanges.net_change
              = kChanges.total_improvements - kChanges.total_regressions

\* a baseline with a true positive and a false negative against a candidate
\* with two true positives: one improvement_fn_to_tp and net_change = +1
C25_Witness ==
    /\ kChanges.built
    /\ \E i, j \in CmpIndices :
          /\ kRows.baseline[i] = "TRUE_POSITIVE"
          /\ kRows.candidate[i] = "TRUE_POSITIVE"
          /\ kRows.baseline[j] = "FALSE_NEGATIVE"
          /\ kRows.candidate[j] = "TRUE_POSITIVE"
    /\ Len(kChanges.new_detections) = 1
    /\ kChanges.net_change = 1

\* the events of request r that chat_service put on the event queue
PutOf(r) == SelectSeq(gwPut, LAMBDA e : e.id = r)

\* C26: every chat request that ends with an allowed or a blocked response
\* has caused exactly one standardized event to be added to the
\* rolling-metrics store and exactly one to be put on the WebSocket event
\* queue.
C26_OneEventPerRequest ==
    \A r \in Requests :
        Answered(r) =>
            /\ Len(EventsOf(r)) = 1
            /\ Len(PutOf(r)) = 1

\* the model of the call is missing, or its embedding or inference failed
ModelFailed ==
    \/ ~dtCall.load_ok
    \/ dtCall.embedding = "none"
    \/ dtCall.inference.raised

\* C27: a call of detect on a detector whose model failed to load or whose
\* inference fails does not raise; it returns the keyword-based fallback
\* score of the text, a value in [0, 1].
C27_DetectNeverFails ==
    (dtResult # NoDetectResult /\ ModelFailed) =>
        /\ dtResult.returned
        /\ dtResult.raised = "none"
        /\ dtResult.score \in 0..10
        /\ dtResult.score = FallbackDetection(dtCall.matches)

\* C28: when analyze has returned its MLSignals, every detector has finished
\* and the total latency_ms is at least the latency recorded for each of the
\* four detectors.
C28_TotalLatencyCoversDetectors ==
    lRun.pc = "returned" =>
        \A d \in Detectors :
            /\ lDet[d].pc = "done"
            /\ lRun.latency_ms >= lDet[d].latency

\* analyze returned after detectors of different, non-zero latencies
C28_Witness ==
    /\ lRun.pc = "returned"
    /\ lDet["pii"].latency > 0
    /\ lDet["heuristic"].latency > lDet["pii"].latency
    /\ lRun.latency_ms > lDet["heuristic"].latency

C29_WitnessOther ==
    \E r \in Requests : gwPc[r] = "done" /\ gwReq[r].outcome = "error"

\* C30: whenever the persisted status of the run is `completed`, the
\* aggregate metrics row of the run is in the database, and it holds the
\* metrics of the run's results: the row is written before the status
\* changes.
C30_CompletedHasMetrics ==
    bDbStatus = "completed" =>
        /\ bDbMetrics.present
        /\ bDbMetrics = CalculateMetrics(bResults)

\* a completed run over more than one batch
C30_Witness ==
    /\ bDbStatus = "completed"
    /\ bTotal > BatchSize
    /\ bDbMetrics.total_samples > 0

TerminalStatuses == {"completed", "failed", "cancelled"}

\* C31: the persisted status of a run starts as running and changes at most
\* once, to one of completed, failed or cancelled; once it has a terminal
\* value no step changes it again, whatever cancel requests or database
\* errors arrive afterwards.
C31_StatusChangesOnce ==
    [][/\ (bDbStatus = "none" /\ bDbStatus' # bDbStatus) => bDbStatus' = "running"
       /\ (bDbStatus = "running" /\ bDbStatus' # bDbStatus)
             => bDbStatus' \in TerminalStatuses
       /\ bDbStatus \in TerminalStatuses => bDbStatus' = bDbStatus]_vars

\* the status was written as failed after a database error, and a cancel
\* request arrived after that
C31_Witness ==
    /\ bDbStatus = "failed"
    /\ bPc = "ended"
    /\ bLastCancel = "false"
    /\ Len(bDbRows) > 0

\* C32: the progress counters of a run (active_runs' and the run row's) are
\* increased only when the rows of the batch are already persisted, and by
\* the number of rows of that batch; the rows of a batch are persisted before
\* the next batch starts; at every batch boundary both counters equal the
\* number of persisted rows, they never exceed total_samples, and they equal
\* total_samples on a completed run.
C32_ProgressFollowsRows ==
    /\ [][/\ bActive'.processed_samples # bActive.processed_samples
               => /\ Len(bDbRows') > Len(bDbRows) \/ bPc = "none"
                  /\ bActive'.processed_samples - bActive.processed_samples
                        = Len(bDbRows') - Len(bDbRows)
                  /\ bActive'.processed_samples = Len(bDbRows')
          /\ bDbProcessed' # bDbProcessed
               => /\ bDbProcessed' = Len(bDbRows)
                  /\ bDbProcessed' = bActive.processed_samples]_vars
    /\ [](/\ bPc = "gather" => Len(bDbRows) = bBatchStart
          /\ bPc = "loop" => /\ bDbProcessed = Len(bDbRows)
                             /\ bActive.processed_samples = Len(bDbRows)
          /\ bDbProcessed <= bTotal
          /\ bActive.processed_samples <= bTotal
          /\ bDbStatus = "completed" => /\ bDbProcessed = bTotal
                                        /\ bActive.processed_samples = bTotal)

\* a completed run whose last batch was shorter than batch_size
C32_Witness ==
    /\ bDbStatus = "completed"
    /\ bTotal > BatchSize
    /\ bTotal % BatchSize # 0
    /\ bDbProcessed = bTotal

\* the background task of the run has been created and has not ended
TaskRunning == bPc \notin {"none", "ended"}

\* C33: cancel_benchmark returns true and sets the cancellation flag exactly
\* when the background task of the run is still running (a second call then
\* changes nothing more); for an unknown run and for a run whose task has
\* ended it returns false and changes no state.
C33_CancelOnlyWhileRunning ==
    [][BCancel =>
         IF TaskRunning
            THEN /\ bLastCancel' = "true"
                 /\ bCancelFlag' = "true"
                 /\ bActive' = bActive
            ELSE /\ bLastCancel' = "false"
                 /\ bCancelFlag' = bCancelFlag
                 /\ bActive' = bActive]_vars

\* C40: once the background task of a run has ended, the status get_status
\* reports for the run equals the persisted status of the run, which is
\* completed, failed or cancelled; an ended run is never reported as running.
C40_ReportedStatusIsPersisted ==
    bPc = "ended" =>
        /\ GetStatus(bActive) = bDbStatus
        /\ GetStatus(bActive) \in TerminalStatuses

\* C34: analyze hands the four detectors to gather together, so that they
\* run in parallel, and returns only when all four have completed; each field
\* of the returned MLSignals holds what its own detector returned, whatever
\* the order in which the detectors completed.
C34_ResultIndependentOfOrder ==
    /\ mlPc = "running" => \A d \in Detectors : detState[d] # "idle"
    /\ mlPc = "returned" =>
          /\ \A d \in Detectors : detState[d] = "done"
          /\ Len(mlOrder) = Cardinality(Detectors)
          /\ mlResult = [present |-> TRUE,
                         pii_score |-> mlBehaviour["pii"].score,
                         toxicity_score |-> mlBehaviour["toxicity"].score,
                         prompt_injection_score |->
                             mlBehaviour["prompt_injection"].score,
                         heuristic_blocked |-> mlBehaviour["heuristic"].blocked,
                         heuristic_score |->
                             IF mlBehaviour["heuristic"].blocked THEN 10 ELSE 0]

\* analyze returned after the detectors completed in the reverse of the
\* order of gather's arguments, with a different result from each
C34_Witness ==
    /\ mlPc = "returned"
    /\ mlOrder = <<"heuristic", "prompt_injection", "toxicity", "pii">>
    /\ mlResult.pii_score = 7
    /\ mlResult.toxicity_score = 8
    /\ mlResult.prompt_injection_score = 9
    /\ mlResult.heuristic_blocked

\* the four detectors are running at the same time
C34_WitnessParallel ==
    /\ mlPc = "running"
    /\ \A d \in Detectors : detState[d] = "running"

C36_UploadOnlyOnChange ==
    [][OEvaluate =>
         /\ oPutSent' # "none"
               <=> (oCall'.rego # "none" /\ oCall'.rego # oLoaded)
         /\ oPutSent' \in {"none", oCall'.rego}
         /\ oLoaded' = IF oPutSent' # "none" /\ oCall'.put = "ok"
                          THEN oPutSent' ELSE oLoaded]_vars

\* an evaluation with a changed text, after a successful upload of another
\* text, uploaded the new text
C36_Witness ==
    /\ oCall.loaded = "rego_a"
    /\ oCall.rego = "rego_b"
    /\ oPutSent = "rego_b"
    /\ oLoaded = "rego_b"

\* an evaluation with the text of the last successful upload sent nothing
C36_WitnessUnchanged ==
    /\ oCall.loaded = "rego_a"
    /\ oCall.rego = "rego_a"
    /\ oPutSent = "none"
    /\ oResult.present

\* process_chat_request of the orchestrator is about to raise the
\* ContentBlockedException of request r
BlockRaised(r) == gwPc[r] = "respond" /\ gwReq[r].outcome = "content_blocked"

\* C37: the ContentBlockedException that leaves process_chat_request carries
\* the reason, the direction, the ml_signals and the preprocessed data of the
\* analysis that blocked: those of the user message for an ingress block and
\* those of the backend reply for an egress block, never those of the other
\* analysis and never None.
C37_BlockCarriesItsAnalysis ==
    \A r \in Requests :
        BlockRaised(r) =>
            /\ gwReq[r].exc_reason = gwReq[r].decision.reason
            /\ gwReq[r].exc_direction = gwReq[r].direction
            /\ gwReq[r].exc_signals = gwReq[r].ml_signals
            /\ gwReq[r].exc_preprocessed = [present |-> TRUE,
                                            length |-> gwReq[r].length]

\* the decision log entries the action orchestrator wrote under a request id
LoggedUnder(rid) == SelectSeq(decisionLog, LAMBDA e : e.request_id = rid)

\* the egress analysis of request r has been orchestrated
EgressOrchestrated(r) ==
    /\ gwReq[r].direction = "egress"
    /\ gwPc[r] \in {"respond", "done"}
    /\ gwReq[r].outcome \in {"allowed", "content_blocked"}

\* C38: with egress analysis enabled, a call whose policy decision on the
\* backend reply is block never returns the reply: it ends with the
\* ContentBlockedException of direction egress, as an ingress block ends with
\* that of direction ingress; and the egress decision is recorded by the
\* action orchestrator under its own request id, next to the ingress record
\* and not suppressed by it.
C38_EgressBlockEndsBlocked ==
    \A r \in Requests :
        /\ (gwPc[r] = "done" /\ gwReq[r].decision.blocked) =>
              /\ gwResponse[r].kind = "ContentBlockedException"
              /\ gwResponse[r].blocked
              /\ gwResponse[r].reason = gwReq[r].decision.reason
              /\ gwReq[r].exc_direction = gwReq[r].direction
        /\ (gwPc[r] = "done" /\ gwResponse[r].kind = "returned") =>
              /\ ~gwReq[r].decision.blocked
              /\ ~gwReq[r].ingress_decision.blocked
        /\ EgressOrchestrated(r) =>
              /\ Len(LoggedUnder(<<r, "egress">>)) = 1
              /\ LoggedUnder(<<r, "egress">>)[1].blocked = gwReq[r].decision.blocked
              /\ Len(LoggedUnder(<<r, "ingress">>)) = 1
              /\ ~LoggedUnder(<<r, "ingress">>)[1].blocked
              /\ debugLog = << >>

\* a call with egress analysis ended blocked on the backend's reply after
\* its ingress analysis had allowed the message
C38_Witness ==
    \E r \in Requests :
        /\ gwPc[r] = "done"
        /\ gwReq[r].analyze_egress
        /\ gwReq[r].direction = "egress"
        /\ gwReq[r].reply = "Echo"
        /\ gwReq[r].decision.blocked
        /\ ~gwReq[r].ingress_decision.blocked
        /\ gwResponse[r].kind = "ContentBlockedException"
        /\ Len(decisionLog) = 2

\* C39: clear_cache leaves the cache empty and returns the number of entries
\* it removed; the instances handed out before stay with their holders; and
\* after a clear each key has at most one instance handed out: the first
\* request constructs it and every later caller is handed that one.
C39_ClearThenRebuildOnce ==
    /\ [](fLastClear.present => fLastClear.returned = fLastClear.removed)
    /\ [](\A k \in CacheKeys : Cardinality(fSinceClear[k]) <= 1)
    /\ [][\A t \in Threads :
             FClear(t) => /\ \A k \in CacheKeys : ~CacheHit(fCache', k)
                          /\ fHanded' = fHanded
                          /\ \A u \in Threads \ {t} : fThread'[u] = fThread[u]]_vars

====
